---------------------------- MODULE Spec2Model ----------------------------
(***************************************************************************)
(* Model of the PRC Chapter Statistical Report consolidation tool:         *)
(*   utils.py            is_static_column, fuzzy_match_activity            *)
(*   processing.py       process_single_file                               *)
(*   transformations.py  transform_to_output_schema, transform_to_opcen    *)
(*   app.py              the batch loop over files_to_process              *)
(*                                                                         *)
(* Text is a sequence of one-character strings, so that trimming, case     *)
(* folding and the similarity scores are computed, not assumed.  A missing *)
(* value (pandas NaN / None) is the one-element sequence NaN.              *)
(***************************************************************************)
EXTENDS Integers, Sequences, FiniteSets, TLC

VARIABLES
    pc,               \* position of the run / of the function under check
    files_to_process, \* app.py: the batch
    mapping_df,       \* the taxonomy table (sequence of rows)
    output_format,    \* "DMS 5W" or "OpCen DSR Daily Assistance"
    idx,              \* app.py: loop index (number of files already attempted)
    all_outputs,      \* app.py: accumulated transformer outputs
    report,           \* app.py: one entry per attempted file (st.write/warning/error)
    final_df,         \* app.py: pd.concat(all_outputs)
    file,             \* process_single_file: the file being processed
    melted_df,        \* process_single_file: observations after reshape and filter
    processed_df,     \* process_single_file: its outcome (frame, None or error)
    output_df,        \* schema transformer result
    column_name,      \* is_static_column: argument
    classified,       \* is_static_column: result
    activity_name,    \* fuzzy_match_activity: argument
    threshold,        \* fuzzy_match_activity: threshold, in percent
    best_match,       \* fuzzy_match_activity: result and the tier it came from
    upload_status,    \* app.py: outcome of the warehouse upload
    calc_row,         \* beneficiary calculator: the row it is applied to
    calc_result,      \* beneficiary calculator: the two figures returned
    debug_file,       \* is_static_column: the lines of /tmp/debug_fuzzy.txt
    file_pos,         \* the read position of the uploaded file's stream
    runs,             \* the records of each run over the same file
    bq_table,         \* bigquery_utils: the rows of the warehouse table
    uploads,          \* bigquery_utils: what each upload_to_bigquery call returned
    now               \* bigquery_utils: datetime.utcnow()

vars == <<pc, files_to_process, mapping_df, output_format, idx, all_outputs,
          report, final_df, file, melted_df, processed_df, output_df,
          column_name, classified, activity_name, threshold, best_match,
          upload_status,
          calc_row, calc_result, debug_file, file_pos, runs, bq_table, uploads, now>>

---------------------------------------------------------------------------
(* Text primitives (Python str methods)                                    *)

NaN == <<"<NaN>">>
None == <<"<None>">>
\* the value of a column the table does not have
Absent == <<"<absent>">>

isna(v) == v = NaN \/ v = None

UpperCase ==
    <<"A","B","C","D","E","F","G","H","I","J","K","L","M",
      "N","O","P","Q","R","S","T","U","V","W","X","Y","Z">>
LowerCase ==
    <<"a","b","c","d","e","f","g","h","i","j","k","l","m",
      "n","o","p","q","r","s","t","u","v","w","x","y","z">>

lower_char(c) ==
    IF \E i \in 1..Len(UpperCase) : UpperCase[i] = c
    THEN LowerCase[CHOOSE i \in 1..Len(UpperCase) : UpperCase[i] = c]
    ELSE c

upper_char(c) ==
    IF \E i \in 1..Len(LowerCase) : LowerCase[i] = c
    THEN UpperCase[CHOOSE i \in 1..Len(LowerCase) : LowerCase[i] = c]
    ELSE c

lower(s) == [i \in 1..Len(s) |-> lower_char(s[i])]
upper(s) == [i \in 1..Len(s) |-> upper_char(s[i])]

RECURSIVE lstrip(_)
lstrip(s) == IF s # <<>> /\ Head(s) = " " THEN lstrip(Tail(s)) ELSE s

RECURSIVE rstrip(_)
rstrip(s) ==
    IF s # <<>> /\ s[Len(s)] = " " THEN rstrip(SubSeq(s, 1, Len(s) - 1)) ELSE s

strip(s) == rstrip(lstrip(s))

\* str(v): a missing value prints as "nan" / "None"
str(v) ==
    IF v = NaN THEN <<"n","a","n">>
    ELSE IF v = None THEN <<"N","o","n","e">>
    ELSE v

Max(x, y) == IF x >= y THEN x ELSE y

---------------------------------------------------------------------------
(* thefuzz.fuzz.ratio: the normalized Indel similarity                     *)
(* 100 * 2 * LCS(s1, s2) / (len(s1) + len(s2)), rounded to an integer with *)
(* Python's round (half to even).                                          *)

RECURSIVE LcsRow(_, _, _, _, _)
\* prev[k + 1] = L[i - 1][k], cur[k + 1] = L[i][k]
LcsRow(ai, b, prev, j, cur) ==
    IF j > Len(b) THEN cur
    ELSE LcsRow(ai, b, prev, j + 1,
                Append(cur, IF ai = b[j] THEN prev[j] + 1
                            ELSE Max(prev[j + 1], cur[j])))

RECURSIVE LcsRows(_, _, _, _)
LcsRows(a, b, i, prev) ==
    IF i > Len(a) THEN prev[Len(b) + 1]
    ELSE LET row == LcsRow(a[i], b, prev, 1, <<0>>)
         IN  IF Len(row) = Len(b) + 1 THEN LcsRows(a, b, i + 1, row) ELSE -1

LCS(a, b) == LcsRows(a, b, 1, [j \in 1..(Len(b) + 1) |-> 0])

round_half_even(num, den) ==
    LET q == num \div den
        r == num % den
    IN  IF 2 * r > den THEN q + 1
        ELSE IF 2 * r < den THEN q
        ELSE IF q % 2 = 0 THEN q ELSE q + 1

fuzz_ratio(s1, s2) ==
    IF Len(s1) + Len(s2) = 0 THEN 100
    ELSE round_half_even(200 * LCS(s1, s2), Len(s1) + Len(s2))

---------------------------------------------------------------------------
(* config.py                                                               *)

STATIC_COLUMNS == <<
    <<"D","a","t","e"," ","o","f"," ","A","c","t","i","v","i","t","y">>,
    <<"L","o","c","a","t","i","o","n"," ","N","o","t","e","s","/","P","l","a",
      "c","e","/","E","v","a","c","u","a","t","i","o","n"," ","C","e","n","t",
      "e","r">>,
    <<"B","a","r","a","n","g","a","y">>,
    <<"M","u","n","i","c","i","p","a","l","i","t","y","/","C","i","t","y">>,
    <<"P","r","o","v","i","n","c","e">>,
    <<"C","h","a","p","t","e","r">>,
    <<"R","e","l","i","e","f"," ","D","o","n","o","r">>,
    <<"A","d","d","i","t","i","o","n","a","l"," ","C","o","m","m","e","n","t","s">> >>

DEFAULT_SHEET_NAME == "Chapter Relief"
DEFAULT_HEADER_ROW == 9

---------------------------------------------------------------------------
(* utils.py: is_static_column                                              *)

StaticThreshold == 90

\* The loop of lines 77-81; the debug log written before it (lines 67-75)
\* reads the same scores and changes nothing the function returns.
is_static_column(name, static_columns, thr) ==
    \E i \in 1..Len(static_columns) :
        fuzz_ratio(lower(name), lower(static_columns[i])) >= thr

---------------------------------------------------------------------------
(* difflib.SequenceMatcher(None, a, b).ratio(): Ratcliff/Obershelp.        *)
(* Positions are 1-based and ranges inclusive; there is no junk (isjunk is *)
(* None and the autojunk heuristic needs 200 or more elements).            *)

RECURSIVE CommonRun(_, _, _, _, _, _)
\* length of the common run of a[i..ahi] and b[j..bhi] that starts at i, j
CommonRun(a, b, i, j, ahi, bhi) ==
    IF i > ahi \/ j > bhi THEN 0
    ELSE IF a[i] # b[j] THEN 0
    ELSE 1 + CommonRun(a, b, i + 1, j + 1, ahi, bhi)

Minimum(S) == CHOOSE x \in S : \A y \in S : x <= y
Maximum(S) == CHOOSE x \in S : \A y \in S : x >= y

\* the common run length at every pair of start positions
RunTable(a, b, alo, ahi, blo, bhi) ==
    [i \in alo..ahi, j \in blo..bhi |-> CommonRun(a, b, i, j, ahi, bhi)]

LongestRun(run) == Maximum({0} \cup {run[p] : p \in DOMAIN run})

EarliestInA(run, size) == Minimum({p[1] : p \in {q \in DOMAIN run : run[q] = size}})

EarliestInB(run, size, i) ==
    Minimum({p[2] : p \in {q \in DOMAIN run : q[1] = i /\ run[q] = size}})

BlockAt(run, size, i) == [i |-> i, j |-> EarliestInB(run, size, i), size |-> size]

BlockOfSize(run, size, alo, blo) ==
    IF size = 0 THEN [i |-> alo, j |-> blo, size |-> 0]
    ELSE BlockAt(run, size, EarliestInA(run, size))

BlockOf(run, alo, blo) == BlockOfSize(run, LongestRun(run), alo, blo)

\* the longest block; of those the one earliest in a, then earliest in b
find_longest_match(a, b, alo, ahi, blo, bhi) ==
    BlockOf(RunTable(a, b, alo, ahi, blo, bhi), alo, blo)

RECURSIVE get_matching_blocks(_, _, _, _, _, _)
RECURSIVE BlocksAround(_, _, _, _, _, _, _)

\* total size of the matching blocks of a[alo..ahi] and b[blo..bhi]
get_matching_blocks(a, b, alo, ahi, blo, bhi) ==
    IF alo > ahi \/ blo > bhi THEN 0
    ELSE BlocksAround(a, b, alo, ahi, blo, bhi,
                      find_longest_match(a, b, alo, ahi, blo, bhi))

\* the block m, and the blocks to its left and to its right
BlocksAround(a, b, alo, ahi, blo, bhi, m) ==
    IF m.size = 0 THEN 0
    ELSE m.size
         + get_matching_blocks(a, b, alo, m.i - 1, blo, m.j - 1)
         + get_matching_blocks(a, b, m.i + m.size, ahi, m.j + m.size, bhi)

\* ratio() = 2.0 * matches / (len(a) + len(b)), 1.0 when both are empty;
\* kept as an exact fraction
SequenceMatcher_ratio(a, b) ==
    IF Len(a) + Len(b) = 0 THEN [num |-> 1, den |-> 1]
    ELSE [num |-> 2 * get_matching_blocks(a, b, 1, Len(a), 1, Len(b)),
          den |-> Len(a) + Len(b)]

\* x > y and x >= t/100 on fractions
FracGt(x, y) == x.num * y.den > y.num * x.den
FracGePercent(x, t) == 100 * x.num >= t * x.den

---------------------------------------------------------------------------
(* utils.py: fuzzy_match_activity                                          *)

MatchThreshold == 90

RawItemNames(df) == [k \in 1..Len(df) |-> df[k].RawItemName]

RECURSIVE MatchLoop(_, _, _, _, _, _)
RECURSIVE MatchEntry(_, _, _, _, _, _, _)
RECURSIVE MatchScore(_, _, _, _, _, _, _)

\* the for loop of lines 92-103 from entry k on; the tier is recorded beside
\* the returned label
MatchLoop(activity_clean, names, k, thr, match, best_score) ==
    IF k > Len(names)
    THEN [match |-> match, tier |-> IF match = None THEN "none" ELSE "fuzzy"]
    ELSE MatchEntry(activity_clean, names, k, thr, match, best_score,
                    lower(strip(str(names[k]))))

\* a faulty variant: no exact tier, every entry is scored
MatchEntry_ScoredOnly(activity_clean, names, k, thr, match, best_score, mapped_clean) ==
    MatchScore(activity_clean, names, k, thr, match, best_score,
               SequenceMatcher_ratio(activity_clean, mapped_clean))

\* a faulty variant: an exact hit is noted but the loop goes on
MatchEntry_NoReturn(activity_clean, names, k, thr, match, best_score, mapped_clean) ==
    IF activity_clean = mapped_clean
    THEN MatchLoop(activity_clean, names, k + 1, thr, names[k], best_score)
    ELSE MatchScore(activity_clean, names, k, thr, match, best_score,
                    SequenceMatcher_ratio(activity_clean, mapped_clean))

\* lines 93-100 for entry k, whose cleaned label is mapped_clean
MatchEntry(activity_clean, names, k, thr, match, best_score, mapped_clean) ==
    IF activity_clean = mapped_clean
    THEN [match |-> names[k], tier |-> "exact"]
    ELSE MatchScore(activity_clean, names, k, thr, match, best_score,
                    SequenceMatcher_ratio(activity_clean, mapped_clean))

\* a faulty variant: >= for >, so that the last of several best entries wins
MatchScore_LastSeen(activity_clean, names, k, thr, match, best_score, similarity) ==
    IF ~FracGt(best_score, similarity) /\ FracGePercent(similarity, thr)
    THEN MatchLoop(activity_clean, names, k + 1, thr, names[k], similarity)
    ELSE MatchLoop(activity_clean, names, k + 1, thr, match, best_score)

\* lines 101-103
MatchScore(activity_clean, names, k, thr, match, best_score, similarity) ==
    IF FracGt(similarity, best_score) /\ FracGePercent(similarity, thr)
    THEN MatchLoop(activity_clean, names, k + 1, thr, names[k], similarity)
    ELSE MatchLoop(activity_clean, names, k + 1, thr, match, best_score)

fuzzy_match(name, df, thr) ==
    MatchLoop(lower(strip(str(name))), RawItemNames(df), 1, thr, None,
              [num |-> 0, den |-> 1])

fuzzy_match_activity(name, df, thr) == fuzzy_match(name, df, thr).match

---------------------------------------------------------------------------
(* Numbers.  A numeric value is a fraction in lowest terms with a positive *)
(* denominator, or NA (pandas NaN).                                        *)

NA == [na |-> TRUE, num |-> 0, den |-> 1]

Abs(x) == IF x < 0 THEN -x ELSE x

RECURSIVE GCD(_, _)
GCD(x, y) == IF y = 0 THEN x ELSE GCD(y, x % y)

Frac(n, d) ==
    LET g == GCD(Abs(n), Abs(d))
        sgn == IF d < 0 THEN -1 ELSE 1
    IN  [na |-> FALSE, num |-> sgn * (n \div g), den |-> sgn * (d \div g)]

Num(n) == [na |-> FALSE, num |-> n, den |-> 1]

FracDiv(x, y) == IF x.na \/ y.na THEN NA ELSE Frac(x.num * y.den, x.den * y.num)
FracMul(x, y) == IF x.na \/ y.na THEN NA ELSE Frac(x.num * y.num, x.den * y.den)
IsPositive(x) == ~x.na /\ x.num > 0
IsZero(x) == ~x.na /\ x.num = 0

Digits == <<"0","1","2","3","4","5","6","7","8","9">>
IsDigit(c) == \E d \in 1..Len(Digits) : Digits[d] = c
DigitValue(c) == (CHOOSE d \in 1..Len(Digits) : Digits[d] = c) - 1

RECURSIVE ParseDigits(_, _)
\* value of a non-empty run of digits, read left to right
ParseDigits(s, acc) ==
    IF s = <<>> THEN acc
    ELSE ParseDigits(Tail(s), 10 * acc + DigitValue(Head(s)))

\* an optional sign followed by digits
ParseSigned(t) ==
    IF t = <<>> THEN NA
    ELSE IF Head(t) \in {"-", "+"}
    THEN IF Len(t) = 1 \/ \E i \in 2..Len(t) : ~IsDigit(t[i]) THEN NA
         ELSE IF Head(t) = "-" THEN Num(-ParseDigits(Tail(t), 0))
         ELSE Num(ParseDigits(Tail(t), 0))
    ELSE IF \E i \in 1..Len(t) : ~IsDigit(t[i]) THEN NA
    ELSE Num(ParseDigits(t, 0))

\* pd.to_numeric(text, errors='coerce') on integer literals: surrounding
\* whitespace and one sign are accepted; anything else (a blank, letters, a
\* thousands separator) is coerced to NaN.
to_numeric(text) == IF isna(text) THEN NA ELSE ParseSigned(strip(text))

---------------------------------------------------------------------------
(* Sequence helpers                                                        *)

RECURSIVE Flatten(_)
Flatten(ss) == IF ss = <<>> THEN <<>> ELSE Head(ss) \o Flatten(Tail(ss))

Range(s) == {s[i] : i \in 1..Len(s)}

RECURSIVE TruePositions(_, _)
\* the positions k..Len(mask) at which mask is TRUE, ascending
TruePositions(mask, k) ==
    IF k > Len(mask) THEN <<>>
    ELSE IF mask[k] THEN <<k>> \o TruePositions(mask, k + 1)
    ELSE TruePositions(mask, k + 1)

---------------------------------------------------------------------------
(* Header names of the files of the model                                  *)

Province == STATIC_COLUMNS[5]
Water == <<"W","a","t","e","r">>
water_sp == <<"w","a","t","e","r"," ">>
Waters == <<"W","a","t","e","r","s">>
Tents == <<"T","e","n","t","s">>

\* header rows: one static column and two activity columns
LayoutA == <<Province, Water, Tents>>
LayoutB == <<water_sp, Province, Waters>>
Layouts == {LayoutA, LayoutB}

RECURSIVE collapse_ws(_)
\* str.replace(r'\s+', ' ', regex=True)
collapse_ws(s) ==
    IF Len(s) < 2 THEN s
    ELSE IF s[1] = " " /\ s[2] = " " THEN collapse_ws(Tail(s))
    ELSE <<s[1]>> \o collapse_ws(Tail(s))

\* processing.py line 25
standardize_column(col) == collapse_ws(strip(col))

StaticColumnTable ==
    [col \in {standardize_column(l[k]) : l \in Layouts, k \in 1..3} |->
        is_static_column(col, STATIC_COLUMNS, StaticThreshold)]

---------------------------------------------------------------------------
(* processing.py: process_single_file                                      *)
(*                                                                         *)
(* A file is [name, sheets, corrupt, columns, rows]: columns is the header *)
(* row at header_row of each sheet named in sheets, rows the rows below    *)
(* it, each a sequence of cell texts aligned with columns (dtype=str; an   *)
(* empty cell is NaN).  An error message is the set of the text fragments  *)
(* it contains.                                                            *)

\* pd.read_excel(file, sheet_name=..., skiprows=header_row-1, dtype=str):
\* an unreadable file fails before any sheet is looked up
read_excel(f, sheet_name) ==
    IF f.corrupt = "ValueError"
    THEN [ok |-> FALSE, type |-> "ValueError",
          msg |-> {"Excel file format cannot be determined"}]
    ELSE IF f.corrupt = "BadZipFile"
    THEN [ok |-> FALSE, type |-> "BadZipFile", msg |-> {"File is not a zip file"}]
    ELSE IF sheet_name \notin f.sheets
    THEN [ok |-> FALSE, type |-> "ValueError",
          msg |-> {"Worksheet named", sheet_name, "not found"}]
    ELSE [ok |-> TRUE, columns |-> f.columns, rows |-> f.rows]

\* lines 16-44: the read, the column clean-up and the two except clauses
\* (lines 27-32 rewrite only columns of the file that are named COST,
\* Quantity or People_Per_Beneficiary; the files drawn below have none)
ReadFile(f, sheet_name) ==
    LET r == read_excel(f, sheet_name)
    IN  IF r.ok
        THEN [kind |-> "frame",
              columns |-> [c \in 1..Len(r.columns) |-> standardize_column(r.columns[c])],
              rows |-> r.rows]
        ELSE IF r.type = "ValueError"
        THEN IF "Worksheet named" \in r.msg
             THEN [kind |-> "error", type |-> "ValueError",
                   msg |-> {"Sheet", sheet_name, "not found in", f.name,
                            "Please check the sheet name"}]
             ELSE [kind |-> "error", type |-> "ValueError", msg |-> r.msg]
        ELSE [kind |-> "error", type |-> "Exception",
              msg |-> {"Error reading", f.name} \cup r.msg]

\* lines 50 and 53: is_static_column(col, static_columns) at its default
\* threshold.  The function is pure, so its value for the header names that
\* occur in the files of the model is tabulated once (StaticColumnTable).
IsStaticColumn(col, static_columns) ==
    IF static_columns = STATIC_COLUMNS /\ col \in DOMAIN StaticColumnTable
    THEN StaticColumnTable[col]
    ELSE is_static_column(col, static_columns, StaticThreshold)

activity_cols(columns, static_columns) ==
    TruePositions([k \in 1..Len(columns) |->
                      ~IsStaticColumn(columns[k], static_columns)], 1)

existing_static_cols(columns, static_columns) ==
    TruePositions([k \in 1..Len(columns) |->
                      IsStaticColumn(columns[k], static_columns)], 1)

\* one melted observation: the static cells of data row r, the header of
\* activity column c as RawItemName, the cell as Count (lines 59-75), and the
\* spreadsheet row number of line 47
Observation(df, fname, header_row, stats, r, c) ==
    [Static |-> [n \in {df.columns[k] : k \in Range(stats)} |->
                    df.rows[r][CHOOSE k \in Range(stats) : df.columns[k] = n]],
     RawItemName |-> df.columns[c],
     Count |-> to_numeric(df.rows[r][c]),
     Source_Filename |-> fname,
     Source_Row_Number |-> (r - 1) + header_row + 1]

\* pd.melt emits, for each activity column in column order, one observation
\* per row in row order
MeltColumns(df, fname, header_row, acts, stats) ==
    Flatten([a \in 1..Len(acts) |->
                [r \in 1..Len(df.rows) |->
                    Observation(df, fname, header_row, stats, r, acts[a])]])

\* lines 46-75
Melt(df, fname, header_row, static_columns) ==
    MeltColumns(df, fname, header_row,
                activity_cols(df.columns, static_columns),
                existing_static_cols(df.columns, static_columns))

\* a faulty variant of the filter: the test Count > 0 of line 79 is left out
KeepObservation_NotNull(o) == ~o.Count.na

\* lines 77-79
KeepObservation(o) == ~o.Count.na /\ o.Count.num > 0

Reshape(df, fname, header_row, static_columns) ==
    SelectSeq(Melt(df, fname, header_row, static_columns), KeepObservation)

\* Python's  m or x : x when m is None or the empty string
OrElse(m, x) == IF m = None \/ m = <<>> THEN x ELSE m

\* a faulty variant: the cleaned form of the label is kept instead of the
\* label as the table writes it
MatchedActivity_Cleaned(x, df) ==
    OrElse(lower(strip(str(fuzzy_match_activity(x, df, MatchThreshold)))), x)

\* line 86: fuzzy_match_activity(x, mapping_df) or x
MatchedActivity(x, df) == OrElse(fuzzy_match_activity(x, df, MatchThreshold), x)

\* the taxonomy columns of a row that joined no taxonomy row
NoTaxonomy(df) ==
    [RawItemName_y |-> NaN,
     Sector |-> IF \E k \in 1..Len(df) : df[k].Sector = Absent THEN Absent ELSE NaN,
     Activity |-> NaN, Materials |-> NaN,
     Unit |-> NaN, Quantity |-> NaN, People_Per_Beneficiary |-> NaN, COST |-> NaN,
     Duplicate_Mapping_Flag |-> NaN]

TaxonomyColumns(t) ==
    [RawItemName_y |-> t.RawItemName, Sector |-> t.Sector, Activity |-> t.Activity,
     Materials |-> t.Materials, Unit |-> t.Unit, Quantity |-> t.Quantity,
     People_Per_Beneficiary |-> t.People_Per_Beneficiary, COST |-> t.COST,
     Duplicate_Mapping_Flag |-> t.Duplicate_Mapping_Flag]

\* the left side of the merge for an observation whose MatchedActivity is key
LeftRow(o, key) ==
    [Static |-> o.Static, RawItemName_x |-> o.RawItemName,
     Count |-> o.Count, Source_Filename |-> o.Source_Filename,
     Source_Row_Number |-> o.Source_Row_Number,
     MatchedActivity |-> key]

\* the taxonomy rows whose RawItemName equals key, in taxonomy order
Hits(df, key) == TruePositions([k \in 1..Len(df) |-> df[k].RawItemName = key], 1)

JoinHits(left, df, hits) ==
    IF hits = <<>> THEN <<left @@ NoTaxonomy(df)>>
    ELSE [h \in 1..Len(hits) |-> left @@ TaxonomyColumns(df[hits[h]])]

MergeOn(o, df, key) == JoinHits(LeftRow(o, key), df, Hits(df, key))

\* lines 90-95: melted_df.merge(mapping_df, left_on='MatchedActivity',
\* right_on='RawItemName', how='left'): one row per matching taxonomy row, in
\* taxonomy order, and one row of NaN taxonomy columns when none matches
MergeRow(o, df) == MergeOn(o, df, MatchedActivity(o.RawItemName, df))

Merge(melted, df) == Flatten([k \in 1..Len(melted) |-> MergeRow(melted[k], df)])

\* lines 98-101
AfterMerge(merged) ==
    IF merged = <<>> THEN [kind |-> "none"] ELSE [kind |-> "frame", rows |-> merged]

\* lines 81-95
AfterReshape(melted, df) ==
    IF melted = <<>> THEN [kind |-> "none"] ELSE AfterMerge(Merge(melted, df))

\* a faulty variant: a read error is swallowed and None returned
AfterRead_Swallowed(r, f, df, header_row, static_columns) ==
    IF r.kind = "error" THEN [kind |-> "none"]
    ELSE AfterReshape(Reshape(r, f.name, header_row, static_columns), df)

\* lines 46-79 on the frame that was read; a read error is raised as it is
AfterRead(r, f, df, header_row, static_columns) ==
    IF r.kind = "error" THEN r
    ELSE AfterReshape(Reshape(r, f.name, header_row, static_columns), df)

\* the whole function: an error, None, or the merged frame
process_single_file(f, df, sheet_name, header_row, static_columns) ==
    AfterRead(ReadFile(f, sheet_name), f, df, header_row, static_columns)

---------------------------------------------------------------------------
(* transformations.py: add_pcodes                                          *)
(*                                                                         *)
(* pcode_df is the reference table of administrative areas, one row per    *)
(* municipality.  Codes and region names are one-element sequences, so     *)
(* that they compare with None.                                            *)

Cebu == <<"C","e","b","u">>
cebu == <<"c","e","b","u">>
leyte == <<"l","e","y","t","e">>
talisay == <<"t","a","l","i","s","a","y">>
talisai == <<"t","a","l","i","s","a","i">>
carmen == <<"c","a","r","m","e","n">>

PcodeRow(adm2, adm2_code, adm1, adm3, adm3_code) ==
    [adm2_clean |-> adm2, ADM2_new |-> <<adm2_code>>, ADM1_EN |-> <<adm1>>,
     adm3_clean |-> adm3, ADM3_new |-> <<adm3_code>>]

\* two provinces; each has a Carmen, and the second has a town whose name is
\* one letter away from a town of the first
pcode_df ==
    <<PcodeRow(cebu, "PH0722", "Region VII", talisay, "PH0722050"),
      PcodeRow(cebu, "PH0722", "Region VII", carmen, "PH0722015"),
      PcodeRow(leyte, "PH0837", "Region VIII", carmen, "PH0837015"),
      PcodeRow(leyte, "PH0837", "Region VIII", talisai, "PH0837099")>>

ScoreCutoff == 85

\* thefuzz utils.full_process on names of letters and spaces
full_process(t) == strip(lower(t))

\* thefuzz fuzz.WRatio on processed names of one word whose lengths differ by
\* less than half: the partial scores are not tried and the token scores,
\* scaled by 0.95, stay below the plain ratio.  An empty name scores 0.
WRatio(s1, s2) == IF s1 = <<>> \/ s2 = <<>> THEN 0 ELSE fuzz_ratio(s1, s2)

RECURSIVE ExtractLoop(_, _, _, _, _, _)
RECURSIVE ExtractStep(_, _, _, _, _, _, _)

\* the best choice from choice k on; a later choice replaces the best one
\* only with a higher score
ExtractLoop(query, choices, k, score_cutoff, best, best_score) ==
    IF k > Len(choices) THEN best
    ELSE ExtractStep(query, choices, k, score_cutoff, best, best_score,
                     WRatio(query, full_process(choices[k])))

ExtractStep(query, choices, k, score_cutoff, best, best_score, score) ==
    IF score >= score_cutoff /\ score > best_score
    THEN ExtractLoop(query, choices, k + 1, score_cutoff, choices[k], score)
    ELSE ExtractLoop(query, choices, k + 1, score_cutoff, best, best_score)

\* process.extractOne(query, choices, score_cutoff=...)[0], or None
extractOne(query, choices, score_cutoff) ==
    ExtractLoop(full_process(query), choices, 1, score_cutoff, None, -1)

RECURSIVE Unique(_, _)
\* .dropna().unique().tolist(): the values in order of first appearance
Unique(values, seen) ==
    IF values = <<>> THEN <<>>
    ELSE IF isna(Head(values)) \/ Head(values) \in seen THEN Unique(Tail(values), seen)
    ELSE <<Head(values)>> \o Unique(Tail(values), seen \cup {Head(values)})

\* line 25
province_list == Unique([k \in 1..Len(pcode_df) |-> pcode_df[k].adm2_clean], {})

\* line 55: the municipalities of one province
mun_list(prov_code) ==
    Unique([k \in 1..Len(pcode_df) |->
               IF pcode_df[k].ADM2_new = prov_code THEN pcode_df[k].adm3_clean
               ELSE NaN], {})

\* lines 35-40
ProvinceOf(matched_name) ==
    IF matched_name = None THEN [code |-> None, region |-> None]
    ELSE [code |-> pcode_df[Minimum({k \in 1..Len(pcode_df) :
                       pcode_df[k].adm2_clean = matched_name})].ADM2_new,
          region |-> pcode_df[Minimum({k \in 1..Len(pcode_df) :
                       pcode_df[k].adm2_clean = matched_name})].ADM1_EN]

\* a faulty variant: the best province is taken whatever its score
match_province_NoCutoff(prov) ==
    IF isna(prov) \/ prov = <<>> THEN [code |-> None, region |-> None]
    ELSE ProvinceOf(extractOne(lower(strip(str(prov))), province_list, 0))

\* lines 28-40
match_province(prov) ==
    IF isna(prov) \/ prov = <<>> THEN [code |-> None, region |-> None]
    ELSE ProvinceOf(extractOne(lower(strip(str(prov))), province_list, ScoreCutoff))

\* lines 60-65
MunicipalityOf(prov_code, matched_name) ==
    IF matched_name = None THEN None
    ELSE pcode_df[Minimum({k \in 1..Len(pcode_df) :
                     /\ pcode_df[k].ADM2_new = prov_code
                     /\ pcode_df[k].adm3_clean = matched_name})].ADM3_new

\* a faulty variant: the municipality is looked up in the whole table
match_municipality_AnyProvince(row) ==
    IF isna(row.Municipality_City) \/ row.Municipality_City = <<>> THEN None
    ELSE IF isna(row.Prov_CODE) THEN None
    ELSE LET matched_name ==
                 extractOne(lower(strip(str(row.Municipality_City))),
                            Unique([k \in 1..Len(pcode_df) |-> pcode_df[k].adm3_clean], {}),
                            ScoreCutoff)
         IN  IF matched_name = None THEN None
             ELSE pcode_df[Minimum({k \in 1..Len(pcode_df) :
                              pcode_df[k].adm3_clean = matched_name})].ADM3_new

\* lines 48-65
match_municipality(row) ==
    IF isna(row.Municipality_City) \/ row.Municipality_City = <<>> THEN None
    ELSE IF isna(row.Prov_CODE) THEN None
    ELSE MunicipalityOf(row.Prov_CODE,
                        extractOne(lower(strip(str(row.Municipality_City))),
                                   mun_list(row.Prov_CODE), ScoreCutoff))

\* line 19
has_province(r) == ~isna(r.Province) /\ r.Province # <<>>

\* lines 43-45
WithProvince(r, matched) ==
    [r EXCEPT !.Prov_CODE = matched.code, !.Region = matched.region]

\* line 67
WithMunicipality(r) == [r EXCEPT !.Mun_Code = match_municipality(r)]

\* lines 12-69 on the output rows, which carry Province, Municipality/City and
\* the three code columns still None
add_pcodes(output_rows) ==
    IF ~\E k \in 1..Len(output_rows) : has_province(output_rows[k])
    THEN output_rows
    ELSE [k \in 1..Len(output_rows) |->
             IF has_province(output_rows[k])
             THEN WithMunicipality(
                      WithProvince(output_rows[k],
                                   match_province(output_rows[k].Province)))
             ELSE output_rows[k]]

---------------------------------------------------------------------------
(* transformations.py: the beneficiary calculator                          *)

CASH_UNITS ==
    {<<"P","E","S","O","S">>, <<"P","H","P">>, <<"C","A","S","H">>,
     <<"P","E","S","O">>}

NEEDS_MAPPING == <<"N","E","E","D","S"," ","M","A","P","P","I","N","G">>
DUPLICATE_MAPPING ==
    <<"D","U","P","L","I","C","A","T","E"," ","M","A","P","P","I","N","G">>

IsCashUnit(unit) == upper(strip(str(unit))) \in CASH_UNITS

\* a faulty variant: the cash test of lines 81-82 is left out
BeneficiaryUnits_NoCashTest(unit, count, quantity) ==
    IF quantity.na \/ quantity.num = 0 THEN NA
    ELSE FracDiv(count, quantity)

\* lines 77-89
BeneficiaryUnits(unit, count, quantity) ==
    IF IsCashUnit(unit) THEN NA
    ELSE IF quantity.na \/ quantity.num = 0 THEN NA
    ELSE FracDiv(count, quantity)

\* lines 71-89
calculate_beneficiary_units(row) ==
    BeneficiaryUnits(row.Unit, row.Count, to_numeric(row.Quantity))

\* a faulty variant: the test of People_Per_Beneficiary (lines 109-110) is
\* left out
Individuals_NoPeopleTest(unit, count, quantity, people_per_beneficiary) ==
    IF IsCashUnit(unit) THEN NA
    ELSE IF quantity.na \/ quantity.num = 0 THEN NA
    ELSE FracMul(FracDiv(count, quantity), people_per_beneficiary)

\* lines 99-114
Individuals(unit, count, quantity, people_per_beneficiary) ==
    IF IsCashUnit(unit) THEN NA
    ELSE IF quantity.na \/ quantity.num = 0 THEN NA
    ELSE IF people_per_beneficiary.na \/ people_per_beneficiary.num = 0 THEN NA
    ELSE FracMul(FracDiv(count, quantity), people_per_beneficiary)

\* lines 92-114
calculate_individuals(row) ==
    Individuals(row.Unit, row.Count, to_numeric(row.Quantity),
                to_numeric(row.People_Per_Beneficiary))

---------------------------------------------------------------------------
(* transformations.py: transform_to_output_schema (DMS 5W)                 *)

\* a faulty variant: the missing-value test is left out, so that a NaN Sector
\* is read as the text "nan"
has_mapping_error_NoIsna(row) ==
    \/ strip(str(row.Sector)) = <<>>
    \/ upper(strip(str(row.Activity))) = NEEDS_MAPPING
    \/ upper(strip(str(row.Sector))) = NEEDS_MAPPING

\* lines 176-181 (and the same test at 130-135 and 140-146)
has_mapping_error(row) ==
    \/ isna(row.Sector)
    \/ strip(str(row.Sector)) = <<>>
    \/ upper(strip(str(row.Activity))) = NEEDS_MAPPING
    \/ upper(strip(str(row.Sector))) = NEEDS_MAPPING

\* a faulty variant: the two errors together are reported as a mapping error
ValidationStatus_NoCheck(has_duplicate_mapping, mapping_error, has_beneficiary_error) ==
    IF has_duplicate_mapping THEN "Check - Duplicate Mapping"
    ELSE IF mapping_error THEN "Check Mapping"
    ELSE IF has_beneficiary_error THEN "Check Beneficiaries"
    ELSE "For Validation"

\* lines 186-198
ValidationStatus(has_duplicate_mapping, mapping_error, has_beneficiary_error) ==
    IF has_duplicate_mapping THEN "Check - Duplicate Mapping"
    ELSE IF mapping_error /\ has_beneficiary_error THEN "Check"
    ELSE IF mapping_error THEN "Check Mapping"
    ELSE IF has_beneficiary_error THEN "Check Beneficiaries"
    ELSE "For Validation"

\* lines 175-198; row carries the two beneficiary columns
determine_validation_status(row) ==
    ValidationStatus(row.Duplicate_Mapping_Flag = DUPLICATE_MAPPING,
                     has_mapping_error(row),
                     row.Beneficiaries_Served.na /\ row.Number_of_Individuals.na)

fillna0(x) == IF x.na THEN Num(0) ELSE x

\* lines 256-261
Recipients(beneficiaries, count) ==
    IF IsPositive(beneficiaries) THEN beneficiaries ELSE count

\* a faulty variant: the recipients are used for every unit
calculate_total_cost_AllUnits(unit, count, activity_cost, beneficiaries) ==
    FracMul(Recipients(beneficiaries, count), activity_cost)

\* lines 249-262; Count and ACTIVITY COSTING after fillna(0)
calculate_total_cost(unit, count, activity_cost, beneficiaries) ==
    IF IsCashUnit(unit)
    THEN FracMul(Recipients(beneficiaries, count), activity_cost)
    ELSE FracMul(activity_cost, count)

\* df.get(name, None) on a column of the source file
GetStatic(row, name) ==
    IF name \in DOMAIN row.Static THEN row.Static[name] ELSE None

\* the digits of t from position a to position b as a number, -1 when one of
\* them is no digit
DigitsAt(t, a, b) ==
    IF \E i \in a..b : ~IsDigit(t[i]) THEN -1 ELSE ParseDigits(SubSeq(t, a, b), 0)

\* a calendar date as a Timestamp at midnight, NaT when there is no such month
\* or day
Timestamp(year, month, day) ==
    IF year < 0 \/ month \notin 1..12 \/ day \notin 1..31 THEN [kind |-> "NaT"]
    ELSE [kind |-> "Timestamp", year |-> year, month |-> month, day |-> day]

\* pd.to_datetime(text, errors='coerce') on the two spellings YYYY-MM-DD and
\* MM/DD/YYYY; any other text is coerced to NaT
to_datetime(text) ==
    IF isna(text) \/ Len(text) # 10 THEN [kind |-> "NaT"]
    ELSE IF text[5] = "-" /\ text[8] = "-"
    THEN Timestamp(DigitsAt(text, 1, 4), DigitsAt(text, 6, 7), DigitsAt(text, 9, 10))
    ELSE IF text[3] = "/" /\ text[6] = "/"
    THEN Timestamp(DigitsAt(text, 7, 10), DigitsAt(text, 1, 2), DigitsAt(text, 4, 5))
    ELSE [kind |-> "NaT"]

\* lines 222-234: Start Date from 'Date of Activity', None without the column
StartDate(row) ==
    IF STATIC_COLUMNS[1] \in DOMAIN row.Static
    THEN to_datetime(row.Static[STATIC_COLUMNS[1]])
    ELSE [kind |-> "None"]

\* the columns of final_columns (lines 271-285) for one row
OutputColumns(row, units, individuals, count, cost) ==
    [Organisation |-> "Philippine Red Cross",
     Sector_Cluster |-> row.Sector,
     Region |-> None,
     Province |-> GetStatic(row, STATIC_COLUMNS[5]),
     Prov_CODE |-> None,
     Municipality_City |-> GetStatic(row, STATIC_COLUMNS[4]),
     Mun_Code |-> None,
     Barangay |-> GetStatic(row, STATIC_COLUMNS[3]),
     Start_Date |-> StartDate(row),
     Activity |-> row.Activity,
     Materials_Service_Provided |->
         IF has_mapping_error(row) THEN row.RawItemName_x ELSE row.Materials,
     Count |-> count,
     Unit |-> row.Unit,
     Beneficiaries_Served |-> units,
     Number_of_Individuals |-> individuals,
     ACTIVITY_COSTING |-> cost,
     Total_Cost |-> calculate_total_cost(row.Unit, count, cost, units),
     Validation_Status |->
         determine_validation_status(
             row @@ [Beneficiaries_Served |-> units,
                     Number_of_Individuals |-> individuals]),
     Source_Filename |-> row.Source_Filename,
     Source_Row_Number |-> row.Source_Row_Number]

\* one output row, before add_pcodes and the final filter
OutputRow(row) ==
    OutputColumns(row, calculate_beneficiary_units(row), calculate_individuals(row),
                  fillna0(row.Count), fillna0(to_numeric(row.COST)))

\* line 268
KeepOutput(r) == IsPositive(r.Count)

\* lines 117-285; output_df['Sector'] raises KeyError when the merged frame
\* has no Sector column
transform_to_output_schema(rows) ==
    IF \E k \in 1..Len(rows) : rows[k].Sector = Absent
    THEN [kind |-> "error", type |-> "KeyError", msg |-> {"Sector"}]
    ELSE [kind |-> "frame",
          rows |-> SelectSeq(add_pcodes([k \in 1..Len(rows) |-> OutputRow(rows[k])]),
                             KeepOutput)]

---------------------------------------------------------------------------
(* transformations.py: transform_to_opcen_format                           *)

\* lines 298 and 302
opcen_unmapped(row) == isna(row.Sector) \/ strip(str(row.Sector)) = <<>>

\* lines 297-299: the status column of the OpCen frame
opcen_status(row) == IF opcen_unmapped(row) THEN "FOR VALIDATION" ELSE "Validated"

\* the Validation Status column is computed (line 297) but is not one of
\* opcen_columns, so no returned row carries it
OpcenRow(row) ==
    [PROVINCE |-> GetStatic(row, STATIC_COLUMNS[5]),
     INTERVENTION_TYPE |->
         IF opcen_unmapped(row) THEN row.RawItemName_x ELSE row.Activity,
     QTY |-> fillna0(row.Count),
     UNIT |-> row.Unit,
     BENEFICIARIES |-> calculate_beneficiary_units(row)]

\* a faulty variant of the filter: >= for >
KeepOpcen_NotNegative(r) == ~r.QTY.na /\ r.QTY.num >= 0

\* line 349
KeepOpcen(r) == IsPositive(r.QTY)

transform_to_opcen_format(rows) ==
    IF \E k \in 1..Len(rows) : rows[k].Sector = Absent
    THEN [kind |-> "error", type |-> "KeyError", msg |-> {"Sector"}]
    ELSE [kind |-> "frame",
          rows |-> SelectSeq([k \in 1..Len(rows) |-> OpcenRow(rows[k])], KeepOpcen)]

FORMATS == {"DMS 5W", "OpCen DSR Daily Assistance"}

\* app.py lines 465-468
Transform(format, rows) ==
    IF format = "DMS 5W" THEN transform_to_output_schema(rows)
    ELSE transform_to_opcen_format(rows)

---------------------------------------------------------------------------
(* bigquery_utils.py                                                       *)
(*                                                                         *)
(* A row of the warehouse table is an output record with the metadata      *)
(* columns and record_hash.  hashlib.sha256 is taken to be free of         *)
(* collisions: a digest is the text it was computed from.                  *)

RECURSIVE DecimalText(_)
\* the decimal digits of a natural number
DecimalText(n) ==
    IF n < 10 THEN <<Digits[n + 1]>>
    ELSE DecimalText(n \div 10) \o <<Digits[(n % 10) + 1]>>

\* two digits, zero-padded
TwoDigits(n) == IF n < 10 THEN <<"0">> \o DecimalText(n) ELSE DecimalText(n)

\* str() of a Start Date: a Timestamp, NaT or None
str_date(d) ==
    IF d.kind = "None" THEN <<"N","o","n","e">>
    ELSE IF d.kind = "NaT" THEN <<"N","a","T">>
    ELSE DecimalText(d.year) \o <<"-">> \o TwoDigits(d.month) \o <<"-">>
             \o TwoDigits(d.day) \o <<" ","0","0",":","0","0",":","0","0">>

\* str() of a float that holds a whole number (the Counts of the model), nan
\* for a missing one
str_float(x) ==
    IF x.na THEN <<"n","a","n">>
    ELSE (IF x.num < 0 THEN <<"-">> ELSE <<>>) \o DecimalText(Abs(x.num))
             \o (IF x.den = 1 THEN <<".","0">> ELSE <<"/">> \o DecimalText(x.den))

\* str(row.get(name, '')) for a text column
GetText(row, name) == IF name \in DOMAIN row THEN str(row[name]) ELSE <<>>

\* '|'.join(hash_fields)
JoinFields(f) ==
    f[1] \o <<"|">> \o f[2] \o <<"|">> \o f[3] \o <<"|">> \o f[4] \o <<"|">>
         \o f[5] \o <<"|">> \o f[6] \o <<"|">> \o f[7]

sha256(hash_string) == [hexdigest |-> hash_string]

\* a faulty variant: the uploader is hashed as well
generate_record_hash_WithUploader(row) ==
    sha256(JoinFields(
        <<IF "Start_Date" \in DOMAIN row THEN str_date(row.Start_Date) ELSE <<>>,
          GetText(row, "Province"),
          GetText(row, "Municipality_City"),
          GetText(row, "Barangay"),
          GetText(row, "Activity"),
          GetText(row, "Materials_Service_Provided"),
          (IF "Count" \in DOMAIN row THEN str_float(row.Count) ELSE <<>>)
              \o <<"|", row.uploaded_by>>>>))

\* lines 141-158
generate_record_hash(row) ==
    sha256(JoinFields(
        <<IF "Start_Date" \in DOMAIN row THEN str_date(row.Start_Date) ELSE <<>>,
          GetText(row, "Province"),
          GetText(row, "Municipality_City"),
          GetText(row, "Barangay"),
          GetText(row, "Activity"),
          GetText(row, "Materials_Service_Provided"),
          IF "Count" \in DOMAIN row THEN str_float(row.Count) ELSE <<>>>>))

\* lines 128-136 for one row: the metadata columns, then the hash
PreparedRow(row) == [record_hash |-> generate_record_hash(row)] @@ row

\* lines 80-138; the columns of the model carry their warehouse names already
prepare_for_bigquery(df, uploaded_by, current_time) ==
    [k \in 1..Len(df) |->
        PreparedRow([upload_timestamp |-> current_time, uploaded_by |-> uploaded_by,
                     source_filename |-> "consolidated",
                     last_updated |-> current_time] @@ df[k])]

\* lines 161-177 on a table that can be queried
get_existing_hashes(table_rows) ==
    {table_rows[k].record_hash : k \in 1..Len(table_rows)}

RECURSIVE HashIsin(_, _, _)
\* bq_df[bq_df['record_hash'].isin(hashes)] when wanted, its complement otherwise
HashIsin(bq_df, hashes, wanted) ==
    IF bq_df = <<>> THEN <<>>
    ELSE IF (Head(bq_df).record_hash \in hashes) = wanted
    THEN <<Head(bq_df)>> \o HashIsin(Tail(bq_df), hashes, wanted)
    ELSE HashIsin(Tail(bq_df), hashes, wanted)

\* a faulty variant: the update records are appended without the delete
Upsert_NoDelete(table_rows, new_records, update_records, bq_df) ==
    [table |-> table_rows \o new_records \o update_records,
     rows_affected |-> Len(new_records) + Len(update_records),
     new |-> Len(new_records), updated |-> Len(update_records), bq_df |-> bq_df]

\* lines 39-77: the load of the new records, the DELETE of the rows whose hash
\* is one of the update records', the load of the update records, and the
\* three numbers returned
Upsert(table_rows, new_records, update_records, bq_df) ==
    [table |-> HashIsin(table_rows \o new_records,
                        get_existing_hashes(update_records), FALSE)
                   \o update_records,
     rows_affected |-> Len(new_records) + Len(update_records),
     new |-> Len(new_records), updated |-> Len(update_records), bq_df |-> bq_df]

\* lines 33-37
SplitRecords(table_rows, bq_df, existing_hashes) ==
    Upsert(table_rows, HashIsin(bq_df, existing_hashes, FALSE),
           HashIsin(bq_df, existing_hashes, TRUE), bq_df)

\* lines 30-77 of upload_to_bigquery against the table table_rows
upload_to_bigquery(df, table_rows, uploaded_by, current_time) ==
    SplitRecords(table_rows, prepare_for_bigquery(df, uploaded_by, current_time),
                 get_existing_hashes(table_rows))

---------------------------------------------------------------------------
(* Bounds and the inputs drawn from them                                   *)

MaxRows == 2        \* data rows of a file
MaxTaxonomy == 2    \* rows of the taxonomy table
MaxFiles == 3       \* files of a batch

RECURSIVE SeqsOfLen(_, _)
SeqsOfLen(S, n) ==
    IF n = 0 THEN {<<>>}
    ELSE {Append(q, x) : q \in SeqsOfLen(S, n - 1), x \in S}

BoundedSeq(S, n) == UNION {SeqsOfLen(S, k) : k \in 0..n}

\* the two activity cells of a data row: positive, blank, zero, unparseable,
\* negative, padded with spaces, written with a thousands separator
RowCells ==
    {<<<<"5">>, <<" ","7"," ">>>>, <<<<"0">>, NaN>>, <<<<"a","b">>, <<"-","3">>>>, <<<<"1","2">>, <<"1",",","0","0","0">>>>}

\* the row of a layout that holds the two activity cells
Arrange(layout, cells) ==
    LET p == CHOOSE k \in 1..Len(layout) : layout[k] = Province
    IN  [k \in 1..Len(layout) |->
            IF k = p THEN Cebu ELSE IF k < p THEN cells[k] ELSE cells[k - 1]]

ReadableFiles(fname) ==
    {[name |-> fname, sheets |-> {DEFAULT_SHEET_NAME}, corrupt |-> "no",
      columns |-> layout,
      rows |-> [r \in 1..Len(table) |-> Arrange(layout, table[r])]] :
        layout \in Layouts, table \in BoundedSeq(RowCells, MaxRows)}

\* a workbook without the expected sheet, and two unreadable uploads
UnreadableFiles(fname) ==
    {[name |-> fname, sheets |-> {"Sheet1"}, corrupt |-> "no",
      columns |-> <<Province, Water, Tents>>,
      rows |-> <<Arrange(<<Province, Water, Tents>>, <<<<"5">>, <<" ","7"," ">>>>)>>],
     [name |-> fname, sheets |-> {}, corrupt |-> "ValueError",
      columns |-> <<>>, rows |-> <<>>],
     [name |-> fname, sheets |-> {}, corrupt |-> "BadZipFile",
      columns |-> <<>>, rows |-> <<>>]}

Files == ReadableFiles("a.xlsx") \cup UnreadableFiles("a.xlsx")

TWater ==
    [RawItemName |-> Water, Sector |-> <<"W","A","S","H">>, Activity |-> <<"R","e","l","i","e","f">>,
     Materials |-> <<"J","u","g">>, Unit |-> <<"P","C","S">>, Quantity |-> <<"2">>,
     People_Per_Beneficiary |-> <<"5">>, COST |-> <<"5","0">>,
     Duplicate_Mapping_Flag |-> NaN]

\* a second row for the same label: blank Sector, cash unit, no figures
TWaterCash ==
    [TWater EXCEPT !.Sector = <<>>, !.Activity = NEEDS_MAPPING,
                   !.Unit = <<"P","e","s","o","s">>, !.Quantity = <<>>,
                   !.People_Per_Beneficiary = <<>>, !.COST = <<>>]

TTents ==
    [TWater EXCEPT !.RawItemName = Tents, !.Sector = <<"C","C","C","M">>,
                   !.Materials = <<"T","e","n","t">>, !.Quantity = <<"0">>]

\* a row whose sheet carries a Duplicate_Mapping_Flag column that is set
TWaterFlagged == [TWater EXCEPT !.Duplicate_Mapping_Flag = DUPLICATE_MAPPING]

TaxonomyRows == {TWater, TWaterCash, TTents, TWaterFlagged}

Taxonomies == BoundedSeq(TaxonomyRows, MaxTaxonomy)

---------------------------------------------------------------------------
(* One file through process_single_file and a schema transformer           *)

NoFile == [name |-> "", sheets |-> {}, corrupt |-> "no", columns |-> <<>>,
           rows |-> <<>>]
NoFrame == [kind |-> "unset"]
NoMatch == [match |-> None, tier |-> "unset"]

BatchIdle ==
    /\ files_to_process = <<>>
    /\ idx = 0
    /\ all_outputs = <<>>
    /\ report = <<>>
    /\ final_df = None
    /\ upload_status = "not started"

FileIdle ==
    /\ file = NoFile
    /\ melted_df = <<>>
    /\ processed_df = NoFrame
    /\ output_df = NoFrame

ClassifyIdle ==
    /\ column_name = <<>>
    /\ classified = "unset"

MatchIdle ==
    /\ activity_name = <<>>
    /\ threshold = MatchThreshold
    /\ best_match = NoMatch

NoRow == [Source_Row_Number |-> 0]
NoResult == [kind |-> "unset"]

CalcIdle ==
    /\ calc_row = NoRow
    /\ calc_result = NoResult

RerunIdle ==
    /\ debug_file = <<>>
    /\ file_pos = 0
    /\ runs = <<>>

WarehouseIdle ==
    /\ bq_table = <<>>
    /\ uploads = <<>>
    /\ now = 0

calc_vars == <<calc_row, calc_result>>
rerun_vars == <<debug_file, file_pos, runs>>
warehouse_vars == <<bq_table, uploads, now>>
batch_vars == <<files_to_process, idx, all_outputs, report, final_df, upload_status>>
file_vars == <<file, melted_df, processed_df, output_df>>
classify_vars == <<column_name, classified>>
match_vars == <<activity_name, threshold, best_match>>

InitFile ==
    /\ pc = "file"
    /\ file \in Files
    /\ mapping_df \in Taxonomies
    /\ output_format = "unset"
    /\ melted_df = <<>>
    /\ processed_df = NoFrame
    /\ output_df = NoFrame
    /\ BatchIdle /\ ClassifyIdle /\ MatchIdle /\ CalcIdle
    /\ RerunIdle /\ WarehouseIdle

\* process_single_file(file, mapping_df, sheet_name, header_row, STATIC_COLUMNS);
\* melted_df records the frame the function holds at line 79
ProcessSingleFile ==
    /\ pc = "file"
    /\ processed_df' = process_single_file(file, mapping_df, DEFAULT_SHEET_NAME,
                                           DEFAULT_HEADER_ROW, STATIC_COLUMNS)
    /\ melted_df' =
           LET r == ReadFile(file, DEFAULT_SHEET_NAME)
           IN  IF r.kind = "error" THEN <<>>
               ELSE Reshape(r, file.name, DEFAULT_HEADER_ROW, STATIC_COLUMNS)
    /\ pc' = "processed"
    /\ UNCHANGED <<file, mapping_df, output_format, output_df>>
    /\ UNCHANGED <<batch_vars, classify_vars, match_vars, calc_vars, rerun_vars, warehouse_vars>>

\* the caller's choice of transformer for a frame that was returned
TransformFile ==
    /\ pc = "processed"
    /\ processed_df.kind = "frame"
    /\ \E format \in FORMATS :
          /\ output_format' = format
          /\ output_df' = Transform(format, processed_df.rows)
    /\ pc' = "transformed"
    /\ UNCHANGED <<file, mapping_df, melted_df, processed_df>>
    /\ UNCHANGED <<batch_vars, classify_vars, match_vars, calc_vars, rerun_vars, warehouse_vars>>

NextFile == ProcessSingleFile \/ TransformFile

SpecFile == InitFile /\ [][NextFile]_vars

---------------------------------------------------------------------------
(* app.py: the batch run (lines 444-505)                                   *)

BatchFile(fname, sheet, corrupt, layout, table) ==
    [name |-> fname, sheets |-> {sheet}, corrupt |-> corrupt, columns |-> layout,
     rows |-> [r \in 1..Len(table) |-> Arrange(layout, table[r])]]

\* two files with observations, one without, one without the sheet, one
\* that cannot be read
BatchFiles ==
    {BatchFile("good.xlsx", DEFAULT_SHEET_NAME, "no", LayoutA, <<<<<<"5">>, <<" ","7"," ">>>>>>),
     BatchFile("more.xlsx", DEFAULT_SHEET_NAME, "no", LayoutB,
               <<<<<<"1","2">>, <<"1",",","0","0","0">>>>, <<<<"5">>, <<" ","7"," ">>>>>>),
     BatchFile("blank.xlsx", DEFAULT_SHEET_NAME, "no", LayoutA, <<<<<<"0">>, NaN>>>>),
     BatchFile("nosheet.xlsx", "Sheet1", "no", LayoutA, <<<<<<"5">>, <<" ","7"," ">>>>>>),
     BatchFile("corrupt.xlsx", "Sheet1", "ValueError", <<>>, <<>>)}

\* a taxonomy with the required columns, and one whose sheet has no Sector
\* column (the transformers raise KeyError on it)
BatchTaxonomies == {<<TWater>>, <<[TWater EXCEPT !.Sector = Absent]>>}

Init ==
    /\ pc = "loop"
    /\ files_to_process \in BoundedSeq(BatchFiles, MaxFiles) \ {<<>>}
    /\ mapping_df \in BatchTaxonomies
    /\ output_format \in FORMATS
    /\ idx = 0
    /\ all_outputs = <<>>
    /\ report = <<>>
    /\ final_df = None
    /\ upload_status = "not started"
    /\ FileIdle /\ ClassifyIdle /\ MatchIdle /\ CalcIdle
    /\ RerunIdle /\ WarehouseIdle

Entry(f, i, outcome, msg) ==
    [file |-> f.name, index |-> i, outcome |-> outcome, msg |-> msg]

\* lines 469-476 on the transformer's result t
Transformed(f, i, t) ==
    IF t.kind = "error"
    THEN [entry |-> Entry(f, i, "error", {"Error processing", f.name} \cup t.msg),
          outputs |-> <<>>]
    ELSE [entry |-> Entry(f, i, "processed", {"Processed", "Transformed"}),
          outputs |-> <<t.rows>>]

\* lines 461-476 on the result p of process_single_file
Processed(f, i, format, p) ==
    IF p.kind = "error"
    THEN [entry |-> Entry(f, i, "error", {"Error processing", f.name} \cup p.msg),
          outputs |-> <<>>]
    ELSE IF p.kind = "none"
    THEN [entry |-> Entry(f, i, "no data", {"No valid data found in", f.name}),
          outputs |-> <<>>]
    ELSE Transformed(f, i, Transform(format, p.rows))

\* what one iteration of the loop (lines 454-479) does with file number i:
\* the try block and its except clause
Attempt(f, i, df, format) ==
    Processed(f, i, format,
              process_single_file(f, df, DEFAULT_SHEET_NAME, DEFAULT_HEADER_ROW,
                                  STATIC_COLUMNS))

\* a faulty variant of the loop body: no except clause, so that an error
\* ends the run
ProcessFile_Uncaught ==
    /\ pc = "loop"
    /\ idx < Len(files_to_process)
    /\ LET a == Attempt(files_to_process[idx + 1], idx, mapping_df, output_format)
       IN  IF a.entry.outcome = "error"
           THEN /\ pc' = "stopped"
                /\ UNCHANGED <<report, all_outputs, idx>>
           ELSE /\ report' = Append(report, a.entry)
                /\ all_outputs' = all_outputs \o a.outputs
                /\ idx' = idx + 1
                /\ pc' = pc
    /\ UNCHANGED <<files_to_process, mapping_df, output_format, final_df,
                   upload_status>>
    /\ UNCHANGED <<file_vars, classify_vars, match_vars, calc_vars, rerun_vars, warehouse_vars>>

\* a faulty variant: the append is outside the test of processed_df, so that
\* a file without a result appends the output of the file before it again
ProcessFile_AppendsAlways ==
    /\ pc = "loop"
    /\ idx < Len(files_to_process)
    /\ LET a == Attempt(files_to_process[idx + 1], idx, mapping_df, output_format)
       IN  /\ report' = Append(report, a.entry)
           /\ all_outputs' =
                  IF a.outputs = <<>> /\ all_outputs # <<>>
                  THEN Append(all_outputs, all_outputs[Len(all_outputs)])
                  ELSE all_outputs \o a.outputs
    /\ idx' = idx + 1
    /\ UNCHANGED <<pc, files_to_process, mapping_df, output_format, final_df,
                   upload_status>>
    /\ UNCHANGED <<file_vars, classify_vars, match_vars, calc_vars, rerun_vars, warehouse_vars>>

ProcessFile ==
    /\ pc = "loop"
    /\ idx < Len(files_to_process)
    /\ LET a == Attempt(files_to_process[idx + 1], idx, mapping_df, output_format)
       IN  /\ report' = Append(report, a.entry)
           /\ all_outputs' = all_outputs \o a.outputs
    /\ idx' = idx + 1
    /\ UNCHANGED <<pc, files_to_process, mapping_df, output_format, final_df,
                   upload_status>>
    /\ UNCHANGED <<file_vars, classify_vars, match_vars, calc_vars, rerun_vars, warehouse_vars>>

\* a faulty variant: the check of all_outputs is left out
AfterLoop_NoCheck(outputs) == [pc |-> "upload", final_df |-> Flatten(outputs)]

\* lines 481-487: st.stop() when nothing was collected, pd.concat otherwise
AfterLoop(outputs) ==
    IF outputs = <<>> THEN [pc |-> "stopped", final_df |-> None]
    ELSE [pc |-> "upload", final_df |-> Flatten(outputs)]

CheckOutputs ==
    /\ pc = "loop"
    /\ idx = Len(files_to_process)
    /\ pc' = AfterLoop(all_outputs).pc
    /\ final_df' = AfterLoop(all_outputs).final_df
    /\ UNCHANGED <<files_to_process, mapping_df, output_format, idx, all_outputs,
                   report, upload_status>>
    /\ UNCHANGED <<file_vars, classify_vars, match_vars, calc_vars, rerun_vars, warehouse_vars>>

\* lines 491-505: upload_to_bigquery inside try/except; a failed upload is
\* reported and the download is offered all the same
Upload ==
    /\ pc = "upload"
    /\ \E ok \in BOOLEAN : upload_status' = IF ok THEN "uploaded" ELSE "failed"
    /\ pc' = "download"
    /\ UNCHANGED <<files_to_process, mapping_df, output_format, idx, all_outputs,
                   report, final_df>>
    /\ UNCHANGED <<file_vars, classify_vars, match_vars, calc_vars, rerun_vars, warehouse_vars>>

Next == ProcessFile \/ CheckOutputs \/ Upload

Spec == Init /\ [][Next]_vars

---------------------------------------------------------------------------
(* fuzzy_match_activity on its own                                         *)

water_lc == <<"w","a","t","e","r">>
Water_sp == <<"W","a","t","e","r"," ">>

\* labels of the taxonomy and raw names looked up in it: Wax scores exactly
\* one half against water, Oil has no letter in common with the other names
MatchLabels ==
    {Water, water_lc, Waters, Tents, <<"W","a","x">>, <<"O","i","l">>}
MatchNames == MatchLabels \cup {Water_sp}
Thresholds == {0, 50, MatchThreshold, 100}

InitMatch ==
    /\ pc = "match"
    /\ mapping_df \in BoundedSeq({[TWater EXCEPT !.RawItemName = n] : n \in MatchLabels},
                                 MaxTaxonomy)
    /\ activity_name \in MatchNames
    /\ threshold \in Thresholds
    /\ best_match = NoMatch
    /\ output_format = "unset"
    /\ BatchIdle /\ FileIdle /\ ClassifyIdle /\ CalcIdle
    /\ RerunIdle /\ WarehouseIdle

Match ==
    /\ pc = "match"
    /\ best_match' = fuzzy_match(activity_name, mapping_df, threshold)
    /\ pc' = "matched"
    /\ UNCHANGED <<mapping_df, output_format, activity_name, threshold>>
    /\ UNCHANGED <<batch_vars, file_vars, classify_vars, calc_vars, rerun_vars, warehouse_vars>>

NextMatch == Match

SpecMatch == InitMatch /\ [][NextMatch]_vars

---------------------------------------------------------------------------
(* is_static_column on its own                                             *)

EditChars == {"x"}

DeleteAt(s, i) == SubSeq(s, 1, i - 1) \o SubSeq(s, i + 1, Len(s))
SubstAt(s, i, c) == [s EXCEPT ![i] = c]
InsertAt(s, i, c) == SubSeq(s, 1, i) \o <<c>> \o SubSeq(s, i + 1, Len(s))

\* the names at most one character edit away from s
OneEdit(s) ==
    {s} \cup {DeleteAt(s, i) : i \in 1..Len(s)}
        \cup {SubstAt(s, i, c) : i \in 1..Len(s), c \in EditChars}
        \cup {InsertAt(s, i, c) : i \in 0..Len(s), c \in EditChars}

InitClassify ==
    /\ pc = "classify"
    /\ column_name \in UNION {OneEdit(STATIC_COLUMNS[k]) : k \in 1..Len(STATIC_COLUMNS)}
    /\ classified = "unset"
    /\ mapping_df = <<>>
    /\ output_format = "unset"
    /\ BatchIdle /\ FileIdle /\ MatchIdle /\ CalcIdle
    /\ RerunIdle /\ WarehouseIdle

Classify ==
    /\ pc = "classify"
    /\ classified' = IF is_static_column(column_name, STATIC_COLUMNS, StaticThreshold)
                     THEN "Static" ELSE "Activity"
    /\ pc' = "classified"
    /\ UNCHANGED <<mapping_df, output_format, column_name>>
    /\ UNCHANGED <<batch_vars, file_vars, match_vars, calc_vars, rerun_vars, warehouse_vars>>

NextClassify == Classify

SpecClassify == InitClassify /\ [][NextClassify]_vars

---------------------------------------------------------------------------
(* The row functions and the schema transformers on merged rows of any     *)
(* content                                                                 *)

KG == <<"K","G">>
WASH == <<"W","A","S","H">>
Relief == <<"R","e","l","i","e","f">>

\* Count as the transformers receive it: a positive figure, zero, a negative
\* figure, a missing one
RowCounts == {Num(10), Num(0), Num(-3), NA}

\* an item unit and the four cash tokens in several spellings
RowUnits ==
    {KG, <<" ","p","e","s","o","s"," ">>, <<"P","H","P">>, <<"C","a","s","h">>,
     <<"P","E","S","O">>}

RowQuantities == {<<"2">>, <<"0">>, NaN, <<"a","b">>}
RowPeople == {<<"5">>, <<"0">>, NaN}
RowCosts == {<<"5","0">>, <<"1","0","0","0">>, <<>>}
RowSectors ==
    {WASH, NaN, <<" ">>,
     <<" ","n","e","e","d","s"," ","m","a","p","p","i","n","g">>}
RowActivities == {Relief, <<"N","e","e","d","s"," ","M","a","p","p","i","n","g">>}
RowFlags == {NaN, DUPLICATE_MAPPING}

\* a merged row (processing.py line 101) with the given columns
MergedRow(count, unit, quantity, people, cost, sector, activity, flag, n) ==
    [Static |-> [c \in {Province} |-> Cebu],
     RawItemName_x |-> Water, Count |-> count, Source_Filename |-> "a.xlsx",
     Source_Row_Number |-> n, MatchedActivity |-> Water, RawItemName_y |-> Water,
     Sector |-> sector, Activity |-> activity, Materials |-> <<"J","u","g">>,
     Unit |-> unit, Quantity |-> quantity, People_Per_Beneficiary |-> people,
     COST |-> cost, Duplicate_Mapping_Flag |-> flag]

MergedRows ==
    {MergedRow(count, unit, quantity, people, cost, sector, activity, flag, 10) :
        count \in RowCounts, unit \in RowUnits, quantity \in RowQuantities,
        people \in RowPeople, cost \in RowCosts, sector \in RowSectors,
        activity \in RowActivities, flag \in RowFlags}

\* a mapped row with all its figures
CleanRow == MergedRow(Num(4), KG, <<"2">>, <<"5">>, <<"5","0">>, WASH, Relief, NaN, 11)

InitRows ==
    /\ pc = "rows"
    /\ calc_row \in MergedRows
    /\ calc_result = NoResult
    /\ processed_df = [kind |-> "frame", rows |-> <<calc_row, CleanRow>>]
    /\ output_df = NoFrame
    /\ output_format = "unset"
    /\ mapping_df = <<>>
    /\ file = NoFile
    /\ melted_df = <<>>
    /\ BatchIdle /\ ClassifyIdle /\ MatchIdle
    /\ RerunIdle /\ WarehouseIdle

\* lines 171-172: the two beneficiary figures of the row
Calculate ==
    /\ pc = "rows"
    /\ calc_result' = [kind |-> "figures",
                       units |-> calculate_beneficiary_units(calc_row),
                       individuals |-> calculate_individuals(calc_row)]
    /\ pc' = "calculated"
    /\ UNCHANGED <<calc_row, mapping_df, output_format>>
    /\ UNCHANGED <<batch_vars, file_vars, classify_vars, match_vars, rerun_vars,
                   warehouse_vars>>

\* either transformer on the table of the row and a clean row
TransformRows ==
    /\ pc = "calculated"
    /\ \E format \in FORMATS :
          /\ output_format' = format
          /\ output_df' = Transform(format, processed_df.rows)
    /\ pc' = "rows transformed"
    /\ UNCHANGED <<calc_vars, mapping_df, file, melted_df, processed_df>>
    /\ UNCHANGED <<batch_vars, classify_vars, match_vars, rerun_vars, warehouse_vars>>

NextRows == Calculate \/ TransformRows

SpecRows == InitRows /\ [][NextRows]_vars

---------------------------------------------------------------------------
(* The location resolver on its own: tables of one or two clean rows whose *)
(* Province and Municipality/City cells vary.                              *)

Municipality == STATIC_COLUMNS[4]

\* "Cebo" is two letters short of the cutoff; Samar is not in the table
ProvinceTexts ==
    {Cebu, <<" ","l","e","y","t","e">>, <<"C","e","b","o">>,
     <<"S","a","m","a","r">>, NaN, <<>>, <<" ">>}

\* Tabogon is in no province of the table
MunicipalityTexts ==
    {<<"T","a","l","i","s","a","y">>, <<"T","a","l","i","s","a","i">>,
     <<" ","C","a","r","m","e","n"," ">>,
     <<"T","a","b","o","g","o","n">>, NaN, <<>>}

LocatedRow(prov, mun, n) ==
    [CleanRow EXCEPT !.Static = (Province :> prov) @@ (Municipality :> mun),
                     !.Source_Row_Number = n]

LocatedRows(n) ==
    {LocatedRow(prov, mun, n) : prov \in ProvinceTexts, mun \in MunicipalityTexts}

LocatedTables ==
    {<<r>> : r \in LocatedRows(10)}
        \cup {<<r, q>> : r \in LocatedRows(10), q \in LocatedRows(11)}

InitPcodes ==
    /\ pc = "located"
    /\ processed_df \in {[kind |-> "frame", rows |-> t] : t \in LocatedTables}
    /\ output_df = NoFrame
    /\ output_format = "unset"
    /\ mapping_df = <<>>
    /\ file = NoFile
    /\ melted_df = <<>>
    /\ BatchIdle /\ ClassifyIdle /\ MatchIdle /\ CalcIdle
    /\ RerunIdle /\ WarehouseIdle

\* app.py line 466: the DMS-5W transformer, which calls add_pcodes
TransformLocated ==
    /\ pc = "located"
    /\ output_format' = "DMS 5W"
    /\ output_df' = transform_to_output_schema(processed_df.rows)
    /\ pc' = "codes added"
    /\ UNCHANGED <<mapping_df, file, melted_df, processed_df>>
    /\ UNCHANGED <<batch_vars, classify_vars, match_vars, calc_vars, rerun_vars, warehouse_vars>>

NextPcodes == TransformLocated

SpecPcodes == InitPcodes /\ [][NextPcodes]_vars

---------------------------------------------------------------------------
(* The same file processed and transformed twice                           *)

\* lines 69-70 of utils.py: is_static_column appends one line per call; it
\* is called at lines 50 and 53 of processing.py for every column of the
\* frame, '_original_row' included
DebugLines(columns) ==
    columns \o <<<<"_original_row">>>> \o columns \o <<<<"_original_row">>>>

\* process_single_file followed by the transformer of the chosen format
\* (app.py 459-468)
RunResult(p, format) ==
    IF p.kind = "frame" THEN Transform(format, p.rows) ELSE p

InitRerun ==
    /\ pc = "rerun"
    /\ file \in BatchFiles
    /\ mapping_df \in
           {<<>>, <<TWater>>, <<TTents, TWaterCash>>, <<[TWater EXCEPT !.Sector = Absent]>>}
    /\ output_format \in FORMATS
    /\ debug_file \in {<<>>, DebugLines(LayoutB)}
    /\ file_pos = 0
    /\ runs = <<>>
    /\ melted_df = <<>>
    /\ processed_df = NoFrame
    /\ output_df = NoFrame
    /\ BatchIdle /\ ClassifyIdle /\ MatchIdle /\ CalcIdle /\ WarehouseIdle

\* a faulty variant: the stream is read from where the run before left it
RunFile_NoRewind ==
    /\ pc = "rerun"
    /\ Len(runs) < 2
    /\ runs' = Append(runs,
                      IF file_pos > 0
                      THEN [kind |-> "error", type |-> "Exception",
                            msg |-> {"Error reading", file.name}]
                      ELSE RunResult(process_single_file(file, mapping_df,
                                         DEFAULT_SHEET_NAME, DEFAULT_HEADER_ROW,
                                         STATIC_COLUMNS), output_format))
    /\ file_pos' = IF read_excel(file, DEFAULT_SHEET_NAME).ok THEN Len(file.rows) + 1
                   ELSE file_pos
    /\ debug_file' = debug_file
    /\ UNCHANGED <<pc, file, mapping_df, output_format, melted_df, processed_df,
                   output_df>>
    /\ UNCHANGED <<batch_vars, classify_vars, match_vars, calc_vars, warehouse_vars>>

\* one run: pd.read_excel reads the stream from its start and leaves it at its
\* end, is_static_column appends to the debug file, and the records are those
\* of the transformer
RunFile ==
    /\ pc = "rerun"
    /\ Len(runs) < 2
    /\ runs' = Append(runs,
                      RunResult(process_single_file(file, mapping_df,
                                    DEFAULT_SHEET_NAME, DEFAULT_HEADER_ROW,
                                    STATIC_COLUMNS), output_format))
    /\ file_pos' = IF read_excel(file, DEFAULT_SHEET_NAME).ok THEN Len(file.rows) + 1
                   ELSE file_pos
    /\ debug_file' = IF read_excel(file, DEFAULT_SHEET_NAME).ok
                     THEN debug_file \o DebugLines(file.columns)
                     ELSE debug_file
    /\ UNCHANGED <<pc, file, mapping_df, output_format, melted_df, processed_df,
                   output_df>>
    /\ UNCHANGED <<batch_vars, classify_vars, match_vars, calc_vars, warehouse_vars>>

NextRerun == RunFile

SpecRerun == InitRerun /\ [][NextRerun]_vars

---------------------------------------------------------------------------
(* upload_to_bigquery called twice with the same consolidated records      *)

DateOfActivity == STATIC_COLUMNS[1]

\* the same day in two spellings, and another day
UploadDates ==
    {<<"2","0","2","4","-","0","1","-","0","5">>,
     <<"0","1","/","0","5","/","2","0","2","4">>,
     <<"2","0","2","4","-","0","2","-","1","0">>}

\* a merged row with a date, a Count and a Unit
DatedRow(date, count, unit, n) ==
    [CleanRow EXCEPT !.Static = (Province :> Cebu) @@ (DateOfActivity :> date),
                     !.Count = count, !.Unit = unit, !.Source_Row_Number = n]

DatedRows(n) ==
    {DatedRow(date, count, unit, n) :
        date \in UploadDates, count \in {Num(4), Num(7)},
        unit \in {KG, <<"P","H","P">>}}

\* the consolidated DMS 5W records of one or two rows
ConsolidatedOutputs ==
    {transform_to_output_schema(t).rows :
        t \in {<<r>> : r \in DatedRows(10)}
                  \cup {<<r, q>> : r \in DatedRows(10), q \in DatedRows(11)}}

Uploaders == {"Streamlit User", "Unknown"}

\* the table is empty or holds the first record, once or twice, from an
\* earlier upload
InitUpload ==
    /\ pc = "warehouse"
    /\ final_df \in ConsolidatedOutputs
    /\ bq_table \in
           {<<>>,
            prepare_for_bigquery(SubSeq(final_df, 1, 1), "Unknown", 0),
            prepare_for_bigquery(SubSeq(final_df, 1, 1) \o SubSeq(final_df, 1, 1),
                                 "Unknown", 0)}
    /\ uploads = <<>>
    /\ now = 1
    /\ files_to_process = <<>>
    /\ idx = 0
    /\ all_outputs = <<>>
    /\ report = <<>>
    /\ upload_status = "not started"
    /\ mapping_df = <<>>
    /\ output_format = "DMS 5W"
    /\ FileIdle /\ ClassifyIdle /\ MatchIdle /\ CalcIdle /\ RerunIdle

\* app.py 496-500: one call of upload_to_bigquery; uploads records what the
\* call returned, the prepared frame and the table it left
UploadToBigquery ==
    /\ pc = "warehouse"
    /\ Len(uploads) < 2
    /\ \E uploaded_by \in Uploaders :
          uploads' = Append(uploads,
                            upload_to_bigquery(final_df, bq_table, uploaded_by, now))
    /\ bq_table' = uploads'[Len(uploads')].table
    /\ now' = now + 1
    /\ UNCHANGED <<pc, mapping_df, output_format, files_to_process, idx, all_outputs,
                   report, final_df, upload_status>>
    /\ UNCHANGED <<file_vars, classify_vars, match_vars, calc_vars, rerun_vars>>

NextUpload == UploadToBigquery

SpecUpload == InitUpload /\ [][NextUpload]_vars

---------------------------------------------------------------------------
(* Properties                                                              *)

\* the file can be read and has the expected sheet
Readable(f) == f.corrupt = "no" /\ DEFAULT_SHEET_NAME \in f.sheets

\* the (row, activity column) cells of f whose parsed value is strictly
\* positive
PositiveCells(f) ==
    {rc \in (1..Len(f.rows)) \X (1..Len(f.columns)) :
        /\ ~IsStaticColumn(standardize_column(f.columns[rc[2]]), STATIC_COLUMNS)
        /\ IsPositive(to_numeric(f.rows[rc[1]][rc[2]]))}

\* C1: for every input table the reshape step of process_single_file emits no
\* observation whose Count is null or <= 0, and emits as many observations as
\* there are (row, activity column) cells with a strictly positive parsed
\* value.
C1_ReshapeKeepsPositiveCells ==
    (pc \in {"processed", "transformed"} /\ Readable(file)) =>
        /\ \A k \in 1..Len(melted_df) :
              ~melted_df[k].Count.na /\ melted_df[k].Count.num > 0
        /\ Len(melted_df) = Cardinality(PositiveCells(file))

\* a file of two rows and four activity cells, two of them positive
C1_Witness ==
    /\ pc = "processed"
    /\ Readable(file)
    /\ Len(file.rows) = 2
    /\ Len(melted_df) = 2
    /\ \E r \in 1..2, c \in 1..3 : file.rows[r][c] = <<"0">>

\* file f fails in the loop: it cannot be read, or it has observations and
\* the transformer finds no Sector column in the merged frame
Fails(f, df) ==
    \/ ~Readable(f)
    \/ PositiveCells(f) # {} /\ \E k \in 1..Len(df) : df[k].Sector = Absent

\* C2: in the batch loop an error raised while processing a file (by
\* process_single_file or by a transformer) is caught and reported for that
\* file, and the later files are still processed: each file of the batch is
\* attempted exactly once, in order, whichever files fail.
C2_EachFileAttemptedOnce ==
    /\ Len(report) = idx
    /\ idx <= Len(files_to_process)
    /\ pc \in {"stopped", "upload", "download"} => idx = Len(files_to_process)
    /\ \A i \in 1..Len(report) :
          /\ report[i].file = files_to_process[i].name
          /\ report[i].index = i - 1
          /\ report[i].outcome = "error" <=> Fails(files_to_process[i], mapping_df)
          /\ report[i].outcome = "error" =>
                {"Error processing", files_to_process[i].name} \subseteq report[i].msg

\* a finished loop in which a file that failed is followed by one that was
\* processed
C2_Witness ==
    /\ pc \in {"stopped", "upload", "download"}
    /\ Len(report) >= 2
    /\ report[1].outcome = "error"
    /\ report[2].outcome = "processed"

\* C3: after the loop the run stops (no concatenation, no upload, no
\* download) if and only if no file contributed an output; when at least one
\* file succeeded it goes on to the consolidation, however many other files
\* failed or had no data.
C3_StopsIffNoOutput ==
    pc \in {"stopped", "upload", "download"} =>
        /\ pc = "stopped" <=> ~\E i \in 1..Len(report) : report[i].outcome = "processed"
        /\ pc = "stopped" => final_df = None /\ upload_status = "not started"
        /\ pc # "stopped" => final_df # None /\ Len(final_df) > 0

\* the download is reached after a batch with a failed file, a file without
\* data and a processed file
C3_Witness ==
    /\ pc = "download"
    /\ \E i \in 1..Len(report) : report[i].outcome = "error"
    /\ \E i \in 1..Len(report) : report[i].outcome = "no data"
    /\ \E i \in 1..Len(report) : report[i].outcome = "processed"

\* C4: process_single_file returns None exactly when the file was read but no
\* observation with a strictly positive Count remains; malformed input or a
\* wrong sheet is signalled by a raised error only, never by None.
C4_NoneIffNoPositiveCount ==
    pc \in {"processed", "transformed"} =>
        /\ processed_df.kind = "none" <=> (Readable(file) /\ PositiveCells(file) = {})
        /\ processed_df.kind = "error" <=> ~Readable(file)

\* a readable file with rows, none of which has a positive cell
C4_Witness ==
    /\ pc = "processed"
    /\ Readable(file)
    /\ Len(file.rows) > 0
    /\ processed_df.kind = "none"

\* C5: when the named sheet is absent the file is aborted with an error that
\* differs from a generic read failure and whose message names the file and
\* the expected sheet; any other read failure raises an error naming the file.
C5_ReadErrorNamesFile ==
    (pc \in {"processed", "transformed"} /\ ~Readable(file)) =>
        /\ processed_df.kind = "error"
        /\ file.name \in processed_df.msg
        /\ file.corrupt = "no" <=> "not found in" \in processed_df.msg
        /\ file.corrupt = "no" => DEFAULT_SHEET_NAME \in processed_df.msg

\* observation o matches no taxonomy entry, exactly or approximately
Unmatched(o, df) == fuzzy_match(o.RawItemName, df, MatchThreshold).tier = "none"

\* C6: an observation whose raw activity name matches no taxonomy entry
\* raises no error and is not dropped: the DMS 5W output has a record for it
\* whose Validation Status is not the clean one and whose
\* Materials/Service Provided is the raw activity name.
C6_UnmatchedSurvives ==
    /\ (pc \in {"processed", "transformed"} /\ melted_df # <<>>) =>
           processed_df.kind = "frame"
    /\ (pc = "transformed" /\ output_format = "DMS 5W") =>
           \A k \in 1..Len(melted_df) :
               Unmatched(melted_df[k], mapping_df) =>
                   /\ output_df.kind = "frame"
                   /\ \E j \in 1..Len(output_df.rows) :
                         /\ output_df.rows[j].Source_Row_Number =
                                melted_df[k].Source_Row_Number
                         /\ output_df.rows[j].Materials_Service_Provided =
                                melted_df[k].RawItemName
                         /\ output_df.rows[j].Validation_Status # "For Validation"

\* a DMS 5W output for a file with an unmatched observation, against a
\* taxonomy that is not empty
C6_Witness ==
    /\ pc = "transformed"
    /\ output_format = "DMS 5W"
    /\ mapping_df # <<>>
    /\ \E k \in 1..Len(melted_df) : Unmatched(melted_df[k], mapping_df)

\* C7: for any taxonomy, one with duplicate RawItemName rows included, the
\* pipeline creates exactly one output record per observation: as many output
\* records as observations with a strictly positive Count.
C7_OneRecordPerObservation ==
    pc = "transformed" =>
        /\ output_df.kind = "frame"
        /\ Len(output_df.rows) = Len(melted_df)

\* the taxonomy rows an observation's matched label binds to
Bound(row, df) == {k \in 1..Len(df) : df[k].RawItemName = row.MatchedActivity}

\* C8: when an observation binds to a RawItemName that occurs in more than
\* one taxonomy row, the Validation Status of the resulting output record is
\* 'Check - Duplicate Mapping'.
C8_DuplicateBindIsFlagged ==
    (/\ pc = "transformed"
     /\ output_format = "DMS 5W"
     /\ output_df.kind = "frame"
     /\ Len(output_df.rows) = Len(processed_df.rows)) =>
        \A j \in 1..Len(output_df.rows) :
            Cardinality(Bound(processed_df.rows[j], mapping_df)) > 1 =>
                output_df.rows[j].Validation_Status = "Check - Duplicate Mapping"

\* the name looked up is a RawItemName of the taxonomy
Canonical == \E k \in 1..Len(mapping_df) : mapping_df[k].RawItemName = activity_name

Clean(s) == lower(strip(str(s)))

\* the first taxonomy entry equal to the name after trimming and lower-casing
FirstEqual ==
    mapping_df[Minimum({k \in 1..Len(mapping_df) :
                           Clean(mapping_df[k].RawItemName) = Clean(activity_name)})]

\* C9 as stated: for every taxonomy and every RawItemName r in it, matching r
\* returns r itself through the exact-match tier, for every threshold.
C9_CanonicalReturnsItself ==
    (pc = "matched" /\ Canonical) =>
        /\ best_match.tier = "exact"
        /\ best_match.match = activity_name

\* C9 as amended: for every taxonomy and every RawItemName r in it, matching
\* r returns, through the exact-match tier and for every threshold, the first
\* entry of the taxonomy that equals r after trimming and lower-casing.
C9_CanonicalReturnsFirstEqual ==
    (pc = "matched" /\ Canonical) =>
        /\ best_match.tier = "exact"
        /\ best_match.match = FirstEqual.RawItemName

\* the label is found exactly behind an entry that scores above the threshold
C9_Witness ==
    /\ pc = "matched"
    /\ Len(mapping_df) = 2
    /\ mapping_df[1].RawItemName = Waters
    /\ mapping_df[2].RawItemName = Water
    /\ activity_name = Water
    /\ threshold = 50
    /\ best_match.match = Water

\* C10: every canonical static column name, and every name one insertion,
\* deletion or substitution away from one, is classified Static at the
\* default threshold.
C10_OneEditIsStatic ==
    (/\ pc = "classified"
     /\ \E k \in 1..Len(STATIC_COLUMNS) : column_name \in OneEdit(STATIC_COLUMNS[k])) =>
        classified = "Static"

\* the row's Unit is one of the cash tokens, its Quantity is missing,
\* unparseable or zero, its People_Per_Beneficiary is missing or zero (read
\* off the texts the rows are drawn from)
CashRow(row) == row.Unit \in RowUnits \ {KG}
NoQuantity(row) == row.Quantity # <<"2">>
NoPeople(row) == row.People_Per_Beneficiary # <<"5">>

\* count / 2 and (count / 2) * 5 on a figure that may be missing
HalfOf(count) == IF count.na THEN NA ELSE Frac(count.num, 2)
FiveHalvesOf(count) == IF count.na THEN NA ELSE Frac(5 * count.num, 2)

\* C11: calculate_beneficiary_units returns null when Unit (trimmed, in any
\* letter case) is PESOS, PHP, CASH or PESO, whatever the other fields hold,
\* and when Quantity is missing or zero; in every other case it returns
\* Count / Quantity, so that for a row with a Count it is null exactly in
\* those cases.
C11_BeneficiaryUnits ==
    pc \in {"calculated", "rows transformed"} =>
        /\ CashRow(calc_row) => calc_result.units.na
        /\ NoQuantity(calc_row) => calc_result.units.na
        /\ (~CashRow(calc_row) /\ ~NoQuantity(calc_row)) =>
               calc_result.units = HalfOf(calc_row.Count)
        /\ ~calc_row.Count.na =>
               (calc_result.units.na <=> (CashRow(calc_row) \/ NoQuantity(calc_row)))

\* 10 items of a unit of 2 make 5 beneficiary units
C11_Witness ==
    /\ pc = "calculated"
    /\ calc_row.Unit = KG
    /\ calc_row.Quantity = <<"2">>
    /\ calc_row.Count = Num(10)
    /\ calc_result.units = Num(5)

\* C12: calculate_individuals returns (Count / Quantity) x
\* People_Per_Beneficiary when the unit is not cash and Quantity and
\* People_Per_Beneficiary are present and not zero (Count 10, Quantity 2,
\* People_Per_Beneficiary 5, Unit KG: 5 units, 25 individuals) and null
\* otherwise; when only People_Per_Beneficiary is missing or zero the
\* beneficiary units are returned and the individuals are null.
C12_Individuals ==
    pc \in {"calculated", "rows transformed"} =>
        /\ (~CashRow(calc_row) /\ ~NoQuantity(calc_row) /\ ~NoPeople(calc_row)) =>
               calc_result.individuals = FiveHalvesOf(calc_row.Count)
        /\ (CashRow(calc_row) \/ NoQuantity(calc_row) \/ NoPeople(calc_row)) =>
               calc_result.individuals.na
        /\ (~CashRow(calc_row) /\ ~NoQuantity(calc_row) /\ NoPeople(calc_row)) =>
               /\ calc_result.units = HalfOf(calc_row.Count)
               /\ calc_result.individuals.na
        /\ (/\ calc_row.Count = Num(10) /\ calc_row.Quantity = <<"2">>
            /\ calc_row.People_Per_Beneficiary = <<"5">> /\ calc_row.Unit = KG) =>
               calc_result.units = Num(5) /\ calc_result.individuals = Num(25)

\* the example of the claim, and next to it a row without
\* People_Per_Beneficiary
C12_Witness ==
    /\ pc = "calculated"
    /\ calc_row.Unit = KG
    /\ calc_row.Quantity = <<"2">>
    /\ calc_row.Count = Num(10)
    /\ calc_row.People_Per_Beneficiary = <<"0">>
    /\ calc_result.units = Num(5)
    /\ calc_result.individuals.na

\* the merged row an output record of the two-row table was made from
SourceOf(n) == IF n = calc_row.Source_Row_Number THEN calc_row ELSE CleanRow

\* C13: every null outcome of the beneficiary calculation sets a review
\* status: a DMS 5W record whose beneficiary units or whose individuals are
\* null does not have the clean status 'For Validation'.
C13_NullFigureIsFlagged ==
    (pc = "rows transformed" /\ output_format = "DMS 5W") =>
        \A j \in 1..Len(output_df.rows) :
            (\/ output_df.rows[j].Beneficiaries_Served.na
             \/ output_df.rows[j].Number_of_Individuals.na) =>
                output_df.rows[j].Validation_Status # "For Validation"

\* the Sector is blank or the Sector or Activity is the sentinel (read off
\* the texts the rows are drawn from)
BlankSector(row) == row.Sector # WASH \/ row.Activity # Relief

NoFigure(r) == r.Beneficiaries_Served.na /\ r.Number_of_Individuals.na

PositiveCount(row) == IsPositive(row.Count)

KeptRows == SelectSeq(processed_df.rows, PositiveCount)

\* C15: transform_to_opcen_format classifies a record as clean exactly when
\* transform_to_output_schema does, and the OpCen record carries the status.
C15_SameValidation ==
    (pc = "rows transformed" /\ output_format = "OpCen DSR Daily Assistance") =>
        /\ Len(output_df.rows) = Len(KeptRows)
        /\ \A j \in 1..Len(KeptRows) :
              /\ opcen_status(KeptRows[j]) = "Validated" <=>
                     OutputRow(KeptRows[j]).Validation_Status = "For Validation"
              /\ "Validation_Status" \in DOMAIN output_df.rows[j]

\* C16: for every DMS 5W record Total Cost is (beneficiary count if there is
\* one, else Count) x ACTIVITY COSTING when the Unit is a cash token and
\* Count x ACTIVITY COSTING otherwise (PESOS, 4 beneficiaries, costing 1000:
\* 4000; KG, Count 10, costing 50: 500).
C16_TotalCost ==
    /\ calculate_total_cost(<<"P","E","S","O","S">>, Num(10), Num(1000), Num(4))
           = Num(4000)
    /\ (pc = "rows transformed" /\ output_format = "DMS 5W") =>
           \A j \in 1..Len(output_df.rows) :
               output_df.rows[j].Total_Cost =
                   IF /\ CashRow(SourceOf(output_df.rows[j].Source_Row_Number))
                      /\ IsPositive(output_df.rows[j].Beneficiaries_Served)
                   THEN FracMul(output_df.rows[j].Beneficiaries_Served,
                                output_df.rows[j].ACTIVITY_COSTING)
                   ELSE FracMul(output_df.rows[j].Count,
                                output_df.rows[j].ACTIVITY_COSTING)

\* 10 KG at 50 cost 500
C16_Witness ==
    /\ pc = "rows transformed"
    /\ output_format = "DMS 5W"
    /\ Len(output_df.rows) = 2
    /\ calc_row.Unit = KG
    /\ output_df.rows[1].Count = Num(10)
    /\ output_df.rows[1].Beneficiaries_Served = Num(5)
    /\ output_df.rows[1].ACTIVITY_COSTING = Num(50)
    /\ output_df.rows[1].Total_Cost = Num(500)

\* C17: a blank or unparseable numeric input is treated as missing, never as
\* zero: no DMS 5W record made from a row with a blank COST has ACTIVITY
\* COSTING 0 or Total Cost 0.
C17_BlankIsNotZero ==
    (pc = "rows transformed" /\ output_format = "DMS 5W") =>
        \A j \in 1..Len(output_df.rows) :
            SourceOf(output_df.rows[j].Source_Row_Number).COST = <<>> =>
                /\ ~IsZero(output_df.rows[j].ACTIVITY_COSTING)
                /\ ~IsZero(output_df.rows[j].Total_Cost)

\* C18: no record returned by either transformer has a Count (DMS 5W) or a
\* QTY (OpCen) that is not strictly positive, whatever Count its input rows
\* hold; the rows with a positive Count are the ones returned.
C18_OnlyPositiveCount ==
    pc = "rows transformed" =>
        /\ output_df.kind = "frame"
        /\ Len(output_df.rows) = Len(KeptRows)
        /\ \A j \in 1..Len(output_df.rows) :
              IF output_format = "DMS 5W"
              THEN /\ ~output_df.rows[j].Count.na
                   /\ output_df.rows[j].Count.num > 0
              ELSE /\ ~output_df.rows[j].QTY.na
                   /\ output_df.rows[j].QTY.num > 0

\* a row with a missing Count was dropped by the OpCen transformer
C18_Witness ==
    /\ pc = "rows transformed"
    /\ output_format = "OpCen DSR Daily Assistance"
    /\ calc_row.Count = NA
    /\ Len(output_df.rows) = 1

\* the input row behind output row k of the location tables, which lose no row
LocatedInput(k) == processed_df.rows[k].Static

\* C19: whenever add_pcodes assigns a Mun_Code to a record, the reference
\* table has a row with that municipality code whose province code is the
\* record's Prov_CODE, even if another province has a town with the same name
\* or a name closer to the record's text.
C19_MunCodeWithinProvince ==
    pc = "codes added" =>
        /\ output_df.kind = "frame"
        /\ \A k \in 1..Len(output_df.rows) :
              ~isna(output_df.rows[k].Mun_Code) =>
                  \E j \in 1..Len(pcode_df) :
                      /\ pcode_df[j].ADM3_new = output_df.rows[k].Mun_Code
                      /\ pcode_df[j].ADM2_new = output_df.rows[k].Prov_CODE

\* a Cebu record whose town text is the exact name of a Leyte town gets the
\* Cebu town one letter away, and a Leyte record gets the Carmen of Leyte
C19_Witness ==
    /\ pc = "codes added"
    /\ output_df.kind = "frame"
    /\ Len(output_df.rows) = 2
    /\ output_df.rows[1].Province = Cebu
    /\ output_df.rows[1].Municipality_City = <<"T","a","l","i","s","a","i">>
    /\ output_df.rows[1].Prov_CODE = <<"PH0722">>
    /\ output_df.rows[1].Mun_Code = <<"PH0722050">>
    /\ output_df.rows[2].Province = <<" ","l","e","y","t","e">>
    /\ output_df.rows[2].Municipality_City = <<" ","C","a","r","m","e","n"," ">>
    /\ output_df.rows[2].Prov_CODE = <<"PH0837">>
    /\ output_df.rows[2].Mun_Code = <<"PH0837015">>

\* the province texts that name a province of the table at the cutoff
ProvinceResolves(prov) == prov \in {Cebu, <<" ","l","e","y","t","e">>}

\* the municipality texts that name a town of either province at the cutoff
MunicipalityResolves(mun) ==
    mun \in {<<"T","a","l","i","s","a","y">>, <<"T","a","l","i","s","a","i">>,
             <<" ","C","a","r","m","e","n"," ">>}

\* C20: location resolution fails softly.  The transformer returns a frame
\* with every record; a record whose province is blank or names no province
\* at the cutoff has Prov_CODE, Region and Mun_Code null; a record whose
\* province resolves but whose municipality does not has Prov_CODE and Region
\* set and Mun_Code null; Mun_Code is non-null only if Prov_CODE is.
C20_SoftFailure ==
    pc = "codes added" =>
        /\ output_df.kind = "frame"
        /\ Len(output_df.rows) = Len(processed_df.rows)
        /\ \A k \in 1..Len(output_df.rows) :
              /\ output_df.rows[k].Source_Row_Number
                    = processed_df.rows[k].Source_Row_Number
              /\ ~ProvinceResolves(LocatedInput(k)[Province]) =>
                    /\ isna(output_df.rows[k].Prov_CODE)
                    /\ isna(output_df.rows[k].Region)
                    /\ isna(output_df.rows[k].Mun_Code)
              /\ (/\ ProvinceResolves(LocatedInput(k)[Province])
                  /\ ~MunicipalityResolves(LocatedInput(k)[Municipality])) =>
                    /\ ~isna(output_df.rows[k].Prov_CODE)
                    /\ ~isna(output_df.rows[k].Region)
                    /\ isna(output_df.rows[k].Mun_Code)
              /\ ~isna(output_df.rows[k].Mun_Code) =>
                    ~isna(output_df.rows[k].Prov_CODE)

\* a record with a misspelt province next to one with an unknown town
C20_Witness ==
    /\ pc = "codes added"
    /\ output_df.kind = "frame"
    /\ Len(output_df.rows) = 2
    /\ LocatedInput(1)[Province] = <<"C","e","b","o">>
    /\ LocatedInput(1)[Municipality] = <<"T","a","l","i","s","a","y">>
    /\ isna(output_df.rows[1].Prov_CODE)
    /\ isna(output_df.rows[1].Mun_Code)
    /\ LocatedInput(2)[Province] = Cebu
    /\ LocatedInput(2)[Municipality] = <<"T","a","b","o","g","o","n">>
    /\ output_df.rows[2].Prov_CODE = <<"PH0722">>
    /\ output_df.rows[2].Region = <<"Region VII">>
    /\ isna(output_df.rows[2].Mun_Code)

\* C23: every output record, in either output schema, carries the name of
\* its originating file and its source row number, and the row number of an
\* observation taken from the i-th data row (0-based) below the header is
\* i + header_row + 1, whatever the number of activity columns of the row.
C23_RecordsKeepTheirSource ==
    (pc = "transformed" /\ output_df.kind = "frame") =>
        \A j \in 1..Len(output_df.rows) :
            /\ "Source_Filename" \in DOMAIN output_df.rows[j]
            /\ "Source_Row_Number" \in DOMAIN output_df.rows[j]
            /\ output_df.rows[j].Source_Filename = file.name
            /\ \E i \in 0..(Len(file.rows) - 1) :
                  output_df.rows[j].Source_Row_Number = i + DEFAULT_HEADER_ROW + 1

RECURSIVE WithoutCommas(_)
\* the text with its thousands separators taken out
WithoutCommas(t) ==
    IF t = <<>> THEN <<>>
    ELSE IF Head(t) = "," THEN WithoutCommas(Tail(t))
    ELSE <<Head(t)>> \o WithoutCommas(Tail(t))

\* the number a cell text writes, surrounding spaces and thousands
\* separators tolerated
WrittenNumber(text) ==
    IF isna(text) THEN NA ELSE to_numeric(WithoutCommas(strip(text)))

\* C24: an activity cell whose text is a positive number written with
\* surrounding spaces or with comma thousands separators yields an observation
\* with that Count, and a cell whose text writes no number yields no
\* observation.
C24_CountToleratesSeparators ==
    (pc = "processed" /\ Readable(file)) =>
        \A r \in 1..Len(file.rows), c \in 1..Len(file.columns) :
            ~IsStaticColumn(standardize_column(file.columns[c]), STATIC_COLUMNS) =>
                (\E k \in 1..Len(melted_df) :
                     /\ melted_df[k].Source_Row_Number = (r - 1) + DEFAULT_HEADER_ROW + 1
                     /\ melted_df[k].RawItemName = standardize_column(file.columns[c])
                     /\ melted_df[k].Count = WrittenNumber(file.rows[r][c]))
                    <=> IsPositive(WrittenNumber(file.rows[r][c]))

\* some taxonomy entry equals the name looked up after trimming and
\* lower-casing
HasEqual ==
    \E k \in 1..Len(mapping_df) : Clean(mapping_df[k].RawItemName) = Clean(activity_name)

\* C25: if a taxonomy RawItemName equals the raw activity name after trim and
\* lower-case, fuzzy_match_activity returns the first such entry in table
\* order, whatever approximate scores the entries before or after it reach.
C25_ExactHitWins ==
    (pc = "matched" /\ HasEqual) => best_match.match = FirstEqual.RawItemName

\* a name that is no label of the table is found exactly behind an entry that
\* scores above the threshold and before another one that does
C25_Witness ==
    /\ pc = "matched"
    /\ ~Canonical
    /\ activity_name = Water_sp
    /\ threshold = 50
    /\ Len(mapping_df) = 2
    /\ mapping_df[1].RawItemName = Waters
    /\ mapping_df[2].RawItemName = water_lc
    /\ best_match.match = water_lc

\* the similarity of taxonomy entry k to the name looked up
Score(k) ==
    SequenceMatcher_ratio(Clean(activity_name), Clean(mapping_df[k].RawItemName))

\* the first of the entries with the highest similarity
FirstBest ==
    Minimum({k \in 1..Len(mapping_df) :
                \A j \in 1..Len(mapping_df) : ~FracGt(Score(j), Score(k))})

C29_CashCostUsesCount ==
    (pc = "rows transformed" /\ output_format = "DMS 5W") =>
        \A j \in 1..Len(output_df.rows) :
            CashRow(SourceOf(output_df.rows[j].Source_Row_Number)) =>
                /\ output_df.rows[j].Beneficiaries_Served.na
                /\ output_df.rows[j].Total_Cost =
                       FracMul(output_df.rows[j].Count, output_df.rows[j].ACTIVITY_COSTING)

\* a cash record with a Quantity from which a beneficiary figure could have
\* been computed: 10 at 1000 cost 10000
C29_Witness ==
    /\ pc = "rows transformed"
    /\ output_format = "DMS 5W"
    /\ Len(output_df.rows) = 2
    /\ calc_row.Unit = <<"P","H","P">>
    /\ calc_row.Quantity = <<"2">>
    /\ output_df.rows[1].Count = Num(10)
    /\ output_df.rows[1].ACTIVITY_COSTING = Num(1000)
    /\ output_df.rows[1].Total_Cost = Num(10000)

\* the label the matcher returns for the raw name of merged row r
LabelOf(r) == fuzzy_match_activity(r.RawItemName_x, mapping_df, MatchThreshold)

\* record r of the processed frame is joined as the matcher's answer label
\* for its raw activity name says
JoinedAsLabelled(r, label) ==
    IF label # None
    THEN /\ \E k \in 1..Len(mapping_df) : mapping_df[k].RawItemName = label
         /\ r.RawItemName_y = label
    ELSE /\ r.MatchedActivity = r.RawItemName_x
         /\ ~\E k \in 1..Len(mapping_df) :
                mapping_df[k].RawItemName = r.MatchedActivity
         /\ isna(r.RawItemName_y)
         /\ isna(r.Sector)

\* C30: after process_single_file a record is joined to a taxonomy row if and
\* only if fuzzy_match_activity returned a label for its raw activity name:
\* a returned label is the RawItemName of a taxonomy row and of the row the
\* record is joined to, and a record for which nothing is returned keeps its
\* raw name as key, joins no taxonomy row and has a null Sector.
C30_JoinedIffLabelled ==
    (pc \in {"processed", "transformed"} /\ processed_df.kind = "frame") =>
        \A j \in 1..Len(processed_df.rows) :
            JoinedAsLabelled(processed_df.rows[j], LabelOf(processed_df.rows[j]))

\* a frame with a record that joined the row of its label and one that
\* joined nothing
C30_Witness ==
    /\ pc = "processed"
    /\ processed_df.kind = "frame"
    /\ mapping_df # <<>>
    /\ \E j \in 1..Len(processed_df.rows) :
          /\ processed_df.rows[j].RawItemName_x = Water
          /\ processed_df.rows[j].RawItemName_y = Water
    /\ \E j \in 1..Len(processed_df.rows) :
          /\ LabelOf(processed_df.rows[j]) = None
          /\ isna(processed_df.rows[j].Sector)

\* the records of the transformer's result t, none when it raised an error
RecordsOf(t) == IF t.kind = "frame" THEN t.rows ELSE <<>>

\* the records of the result p of process_single_file under the batch's
\* output format, none when p is an error or None
Contributed(p) ==
    IF p.kind = "frame" THEN RecordsOf(Transform(output_format, p.rows)) ELSE <<>>

\* what file f yields when it is processed alone against the batch's taxonomy
Alone(f) ==
    Contributed(process_single_file(f, mapping_df, DEFAULT_SHEET_NAME,
                                    DEFAULT_HEADER_ROW, STATIC_COLUMNS))

\* C27: the consolidated output is the concatenation, in batch order, of the
\* transformer output of each file that was processed without error and
\* returned a result; a file that raised an error or returned None
\* contributes nothing, and every file contributes what it yields when
\* processed alone.
C27_ConcatenationInBatchOrder ==
    /\ Flatten(all_outputs) = Flatten([i \in 1..idx |-> Alone(files_to_process[i])])
    /\ pc \in {"upload", "download"} =>
           final_df = Flatten([i \in 1..Len(files_to_process) |->
                                  Alone(files_to_process[i])])

\* a consolidated output of two different files with records around a file
\* that contributed none
C27_Witness ==
    /\ pc = "upload"
    /\ Len(report) = 3
    /\ report[1].outcome = "processed"
    /\ report[2].outcome # "processed"
    /\ report[3].outcome = "processed"
    /\ files_to_process[1].name # files_to_process[3].name
    /\ Len(final_df) = 5

PreparedRows ==
    {bq_table[k] : k \in 1..Len(bq_table)}
        \cup UNION {{uploads[c].bq_df[k] : k \in 1..Len(uploads[c].bq_df)} :
                       c \in 1..Len(uploads)}

\* two rows agree on the seven key fields
SameKey(a, b) ==
    /\ a.Start_Date = b.Start_Date
    /\ a.Province = b.Province
    /\ a.Municipality_City = b.Municipality_City
    /\ a.Barangay = b.Barangay
    /\ a.Activity = b.Activity
    /\ a.Materials_Service_Provided = b.Materials_Service_Provided
    /\ a.Count = b.Count

\* C22: two records that agree on start date, province, municipality,
\* barangay, activity, materials/service and count have the same record_hash,
\* whatever their other fields, upload time and uploader, and the hashes
\* derived again for the same consolidated records are the same.
C22_HashOfSevenFields ==
    /\ \A a \in PreparedRows, b \in PreparedRows :
          SameKey(a, b) => a.record_hash = b.record_hash
    /\ \A c \in 1..Len(uploads) :
          [k \in 1..Len(uploads[c].bq_df) |-> uploads[c].bq_df[k].record_hash]
              = [k \in 1..Len(uploads[1].bq_df) |-> uploads[1].bq_df[k].record_hash]

\* two calls by different uploaders, for two records of the same day (written
\* in two ways) and Count that differ in Unit and source row
C22_Witness ==
    /\ Len(uploads) = 2
    /\ Len(final_df) = 2
    /\ SameKey(final_df[1], final_df[2])
    /\ final_df[1].Unit # final_df[2].Unit
    /\ uploads[1].bq_df[1].uploaded_by # uploads[2].bq_df[1].uploaded_by
    /\ uploads[1].bq_df[1].upload_timestamp # uploads[2].bq_df[1].upload_timestamp
    /\ uploads[1].bq_df[1].record_hash = uploads[2].bq_df[2].record_hash

\* the number of rows of a table with hash h
HashCount(rows, h) == Cardinality({k \in 1..Len(rows) : rows[k].record_hash = h})

=============================================================================
